---- MODULE Spec2Model ----
(***************************************************************************)
(* A model of the text-adventure session engine: AdventureGame             *)
(* (src/adventure.py), Player / Item / Location (src/game_entities.py) and *)
(* EventList (src/event_logger.py).                                        *)
(*                                                                         *)
(* Command strings such as "go east" are modelled as pairs <<"go","east">>.*)
(* Item objects are identified by their registry name; the mutable field   *)
(* Item.current_position is the variable current_position[name].           *)
(***************************************************************************)
EXTENDS Integers, Sequences, FiniteSets, TLC

(***************************************************************************)
(* Program constants                                                       *)
(***************************************************************************)
BASE_MAX_MOVES == 28
COFFEE_BONUS_MOVES == 5
MAX_SCORE == 230
RITUAL_LOCATION_ID == 10
DORM_LOCATION_ID == 0
KEYPAD_LOCATION_ID == 7
SERVER_ROOM_DEST == 12
KEYPAD_BONUS == 20
PUZZLE_CHECK_DEST == 12
LoseDemoLength == 35
RITUAL_BONUS == 50
HELD == -1

RITUAL_ITEMS == <<"USB Drive", "Laptop Charger", "Lucky Mug">>
required == {"USB Drive", "Laptop Charger", "Lucky Mug"}
DefaultPuzzleCode == "1827"

None == "None"
NoCommand == <<>>

(***************************************************************************)
(* Bounds of the model                                                     *)
(***************************************************************************)
MaxApiMoves == 3
MaxTakes == 4
MaxLoopMoves == 2
MaxLogOps == 6
MaxSimCommands == 3

(***************************************************************************)
(* Sequence helpers (Python list operations)                               *)
(***************************************************************************)
Range(s) == {s[i] : i \in 1..Len(s)}

\* faulty list.remove(x): nothing is deleted
ListRemove_keeps(s, x) == s

\* list.remove(x): delete the first element equal to x
ListRemove(s, x) ==
    IF x \notin Range(s) THEN s
    ELSE LET i == CHOOSE k \in 1..Len(s) : s[k] = x /\ \A j \in 1..(k-1) : s[j] # x
         IN  SubSeq(s, 1, i-1) \o SubSeq(s, i+1, Len(s))

\* faulty dict[key] = value: the other entries are lost
DictPut_only(d, key, value) == [k \in {key} |-> value]

\* dict[key] = value
DictPut(d, key, value) ==
    [k \in (DOMAIN d) \cup {key} |-> IF k = key THEN value ELSE d[k]]

(***************************************************************************)
(* str.lower() on the names that occur in the model                        *)
(***************************************************************************)
LowerTable ==
    [n \in {"USB Drive", "usb drive", "Laptop Charger", "laptop charger",
            "Lucky Mug", "lucky mug", "coffee", "COFFEE", "backup_usb",
            "toonie", "note", "cancel", "CANCEL", "1827", "0000"} |->
        CASE n = "USB Drive"      -> "usb drive"
          [] n = "Laptop Charger" -> "laptop charger"
          [] n = "Lucky Mug"      -> "lucky mug"
          [] n = "COFFEE"         -> "coffee"
          [] n = "CANCEL"         -> "cancel"
          [] OTHER                -> n]

lower(s) == LowerTable[s]

(***************************************************************************)
(* Loader output: a sample world inside the loader contract.  An entry of  *)
(* a transition table is an integer destination or a special-action tag.   *)
(***************************************************************************)
IntResult(n) == [isint |-> TRUE,  id |-> n,  tag |-> "", payload |-> ""]
StrResult(t) == [isint |-> FALSE, id |-> -1, tag |-> t,  payload |-> ""]

LocationIds == {0, 7, 10, 12}

InitialCommands ==
    [l \in LocationIds |->
        CASE l = 0  -> (<<"go", "east">>  :> IntResult(7)) @@
                       (<<"go", "north">> :> IntResult(10))
          [] l = 7  -> (<<"go", "west">>  :> IntResult(0))
          [] l = 10 -> (<<"go", "south">> :> IntResult(0)) @@
                       (<<"go", "north">> :> StrResult("action:puzzle_check"))
          [] l = 12 -> (<<"go", "north">> :> IntResult(7))]

InitialItems ==
    [l \in LocationIds |->
        CASE l = 0  -> <<"USB Drive", "Laptop Charger", "Lucky Mug">>
          [] l = 7  -> <<"coffee">>
          [] OTHER  -> <<>>]

\* The item registry _items, in list order.
ItemDefs ==
    << [name |-> "USB Drive",      start_position |-> 0,  target_position |-> 10,
        target_points |-> 20, pickup_points |-> 5],
       [name |-> "Laptop Charger", start_position |-> 0,  target_position |-> 7,
        target_points |-> 20, pickup_points |-> 5],
       [name |-> "Lucky Mug",      start_position |-> 0,  target_position |-> 10,
        target_points |-> 0,  pickup_points |-> 5],
       [name |-> "coffee",         start_position |-> 7,  target_position |-> -1,
        target_points |-> 0,  pickup_points |-> 0],
       [name |-> "backup_usb",     start_position |-> -1, target_position |-> 0,
        target_points |-> 40, pickup_points |-> 0] >>

ItemNames == {ItemDefs[i].name : i \in 1..Len(ItemDefs)}

Directions == {"east", "west", "north", "south"}
TypedNames == {"usb drive", "Laptop Charger", "Lucky Mug", "COFFEE",
               "backup_usb", "toonie"}
ExaminedNames == {"usb drive", "backup_usb", "toonie"}
TypedCodes == {"1827", "0000", "CANCEL"}

(***************************************************************************)
(* State                                                                   *)
(***************************************************************************)
VARIABLES
    current_location_id,   \* AdventureGame.current_location_id
    ongoing,               \* AdventureGame.ongoing
    ending,                \* what the loop showed when it ended the session
    max_moves,             \* AdventureGame.max_moves
    inventory,             \* Player.inventory (list of item names)
    score,                 \* Player.score
    moves_made,            \* Player.moves_made
    available_commands,    \* Location.available_commands, per location
    items,                 \* Location.items, per location (list of names)
    visited,               \* Location.visited, per location
    current_position,      \* Item.current_position, per item
    state,                 \* AdventureGame._state (GameState)
    game_logs,             \* the EventList the session writes to
    driver,                \* who drives the session: "api" or "loop"
    current_location,      \* generate_events' local current_location (its id)
    lastOp,                \* history: the last command and its outcome
    hist,                  \* history: the calls made on the event log
    go_ok,                 \* history: number of successful movement commands
    takes                  \* history: number of successful take commands

vars == <<current_location_id, ongoing, ending, max_moves, inventory, score,
          moves_made, available_commands, items, visited, current_position,
          state, game_logs, driver, current_location, lastOp, hist, go_ok,
          takes>>


(***************************************************************************)
(* Item registry and Player                                                *)
(***************************************************************************)
\* AdventureGame.get_item: first registry entry whose lowered name matches
get_item(name_of_item) ==
    LET hits == {i \in 1..Len(ItemDefs) : lower(ItemDefs[i].name) = lower(name_of_item)}
    IN  IF hits = {} THEN None
        ELSE ItemDefs[CHOOSE i \in hits : \A j \in hits : i <= j].name

ItemDef(name) == ItemDefs[CHOOSE i \in 1..Len(ItemDefs) : ItemDefs[i].name = name]

\* first element of a list of names whose lowered form matches, or None
FirstMatch(names, typed) ==
    LET hits == {i \in 1..Len(names) : lower(names[i]) = lower(typed)}
    IN  IF hits = {} THEN None
        ELSE names[CHOOSE i \in hits : \A j \in hits : i <= j]

\* faulty add_item: the item is not appended
add_item_drops(inv, item) == inv

\* Player.add_item
add_item(inv, item) == Append(inv, item)

\* faulty remove_item: finds the item but leaves it in the inventory
remove_item_keeps(inv, item_name) ==
    LET hits == {i \in 1..Len(inv) : lower(inv[i]) = lower(item_name)}
    IN  IF hits = {} THEN <<None, inv>>
        ELSE <<inv[CHOOSE i \in hits : \A j \in hits : i <= j], inv>>

\* Player.remove_item: <<removed item or None, inventory afterwards>>
remove_item(inv, item_name) ==
    LET found == FirstMatch(inv, item_name)
    IN  IF found = None THEN <<None, inv>> ELSE <<found, ListRemove(inv, found)>>

\* Player.has_item
has_item(inv, item_name) == \E i \in 1..Len(inv) : lower(inv[i]) = lower(item_name)

\* faulty add_score: subtracts the points
add_score_subtracts(s, points) == s - points

\* Player.add_score
add_score(s, points) == s + points

\* Player.increment_moves
increment_moves(m) == m + 1

(***************************************************************************)
(* EventList: a heap of Event nodes addressed by index, 0 standing for     *)
(* Python's None in the link fields.                                       *)
(***************************************************************************)
long_description(l) ==
    CASE l = 0  -> "Your dorm room"
      [] l = 7  -> "Bahen keypad door"
      [] l = 10 -> "King's College Circle"
      [] l = 12 -> "Server room"

\* Event(id_num, description): next_command, next and prev default to None
Event(id_num, description) ==
    [id_num |-> id_num, description |-> description,
     next_command |-> NoCommand, next |-> 0, prev |-> 0]

\* EventList.__init__
EmptyEventList == [first |-> 0, last |-> 0, nodes |-> <<>>]

\* EventList.is_empty
is_empty(log) == log.first = 0

\* faulty add_event: links the new entry but never records the command
add_event_untagged(log, event, command) ==
    LET new == Len(log.nodes) + 1
    IN  IF log.first = 0
        THEN [first |-> new, last |-> new,
              nodes |-> Append(log.nodes,
                               [event EXCEPT !.prev = 0, !.next = 0,
                                             !.next_command = NoCommand])]
        ELSE [first |-> log.first, last |-> new,
              nodes |-> Append([log.nodes EXCEPT ![log.last].next = new],
                               [event EXCEPT !.prev = log.last, !.next = 0,
                                             !.next_command = NoCommand])]

\* faulty add_event: on an empty log the command stays on the new entry
add_event_keeps_command(log, event, command) ==
    LET new == Len(log.nodes) + 1
    IN  IF log.first = 0
        THEN [first |-> new, last |-> new,
              nodes |-> Append(log.nodes,
                               [event EXCEPT !.prev = 0, !.next = 0,
                                             !.next_command = command])]
        ELSE [first |-> log.first, last |-> new,
              nodes |-> Append([log.nodes EXCEPT ![log.last].next = new,
                                                 ![log.last].next_command = command],
                               [event EXCEPT !.prev = log.last, !.next = 0,
                                             !.next_command = NoCommand])]

\* faulty add_event: the command is recorded on the new entry
add_event_tags_new(log, event, command) ==
    LET new == Len(log.nodes) + 1
    IN  IF log.first = 0
        THEN [first |-> new, last |-> new,
              nodes |-> Append(log.nodes,
                               [event EXCEPT !.prev = 0, !.next = 0,
                                             !.next_command = NoCommand])]
        ELSE [first |-> log.first, last |-> new,
              nodes |-> Append([log.nodes EXCEPT ![log.last].next = new],
                               [event EXCEPT !.prev = log.last, !.next = 0,
                                             !.next_command = command])]

\* EventList.add_event
add_event(log, event, command) ==
    LET new == Len(log.nodes) + 1
    IN  IF is_empty(log)
        THEN [first |-> new, last |-> new,
              nodes |-> Append(log.nodes,
                               [event EXCEPT !.prev = 0, !.next = 0,
                                             !.next_command = NoCommand])]
        ELSE [first |-> log.first, last |-> new,
              nodes |-> Append([log.nodes EXCEPT ![log.last].next = new,
                                                 ![log.last].next_command = command],
                               [event EXCEPT !.prev = log.last, !.next = 0,
                                             !.next_command = NoCommand])]

\* faulty Event.__eq__: the link fields next and prev are left out
EventEq_no_links(log, a, b) ==
    /\ log.nodes[a].id_num = log.nodes[b].id_num
    /\ log.nodes[a].description = log.nodes[b].description
    /\ log.nodes[a].next_command = log.nodes[b].next_command

\* faulty Event.__eq__: only the location fields are compared
EventEq_shallow(log, a, b) ==
    /\ log.nodes[a].id_num = log.nodes[b].id_num
    /\ log.nodes[a].description = log.nodes[b].description

\* Event.__eq__ as @dataclass generates it: the fields are compared in
\* order; a field holding an Event or None is compared by RefEq
RECURSIVE EventEq(_, _, _)
RECURSIVE RefEq(_, _, _)
EventEq(log, a, b) ==
    /\ log.nodes[a].id_num = log.nodes[b].id_num
    /\ log.nodes[a].description = log.nodes[b].description
    /\ log.nodes[a].next_command = log.nodes[b].next_command
    /\ RefEq(log, log.nodes[a].next, log.nodes[b].next)
    /\ RefEq(log, log.nodes[a].prev, log.nodes[b].prev)

\* x == y for x, y each an Event or None: the same object is equal to
\* itself, None equals only None, two Events are compared by Event.__eq__
RefEq(log, x, y) ==
    IF x = y THEN TRUE
    ELSE IF x = 0 \/ y = 0 THEN FALSE
    ELSE EventEq(log, x, y)

\* faulty remove_last_event: a one-entry log keeps its first entry
remove_last_event_keeps_first(log) ==
    IF is_empty(log) THEN log
    ELSE IF EventEq(log, log.first, log.last)
    THEN [log EXCEPT !.last = 0]
    ELSE LET new_last == log.nodes[log.last].prev
         IN  [first |-> log.first, last |-> new_last,
              nodes |-> [log.nodes EXCEPT ![new_last].next = 0,
                                          ![new_last].next_command = NoCommand]]

\* faulty remove_last_event: the new last entry keeps its command
remove_last_event_keeps_command(log) ==
    IF is_empty(log) THEN log
    ELSE IF EventEq(log, log.first, log.last)
    THEN [log EXCEPT !.first = 0, !.last = 0]
    ELSE LET new_last == log.nodes[log.last].prev
         IN  [first |-> log.first, last |-> new_last,
              nodes |-> [log.nodes EXCEPT ![new_last].next = 0]]

\* EventList.remove_last_event
remove_last_event(log) ==
    IF is_empty(log) THEN log
    ELSE IF EventEq(log, log.first, log.last)
    THEN [log EXCEPT !.first = 0, !.last = 0]
    ELSE LET new_last == log.nodes[log.last].prev
         IN  [first |-> log.first, last |-> new_last,
              nodes |-> [log.nodes EXCEPT ![new_last].next = 0,
                                          ![new_last].next_command = NoCommand]]

\* EventList.get_id_log
RECURSIVE IdLogFrom(_, _)
IdLogFrom(log, curr) ==
    IF curr = 0 THEN <<>>
    ELSE <<log.nodes[curr].id_num>> \o IdLogFrom(log, log.nodes[curr].next)

get_id_log(log) == IdLogFrom(log, log.first)

(***************************************************************************)
(* Stage advance, coffee and ritual helpers                                *)
(***************************************************************************)
StageOrder == <<"start", "exploring", "gathering", "ready_ritual", "ritual_done">>
StageRank(s) == CHOOSE i \in 1..Len(StageOrder) : StageOrder[i] = s

\* faulty check_stage_messages: the third rule ignores ritual_complete
check_stage_messages_regress(st) ==
    LET collected == required \cap st.items_collected
        s1 == IF st.game_stage = "start" /\ collected # {}
              THEN "exploring" ELSE st.game_stage
        s2 == IF s1 = "exploring" /\ Cardinality(collected) >= 2
              THEN "gathering" ELSE s1
        s3 == IF Cardinality(collected) = 3 THEN "ready_ritual" ELSE s2
    IN  [st EXCEPT !.game_stage = s3]

\* AdventureGame.check_stage_messages: the stage it leaves in _state
check_stage_messages(st) ==
    LET collected == required \cap st.items_collected
        s1 == IF st.game_stage = "start" /\ collected # {}
              THEN "exploring" ELSE st.game_stage
        s2 == IF s1 = "exploring" /\ Cardinality(collected) >= 2
              THEN "gathering" ELSE s1
        s3 == IF Cardinality(collected) = 3 /\ ~st.ritual_complete
              THEN "ready_ritual" ELSE s2
    IN  [st EXCEPT !.game_stage = s3]

\* faulty ritual test: any() in place of all()
any_ritual_item_present(loc_items) ==
    \E i \in 1..Len(RITUAL_ITEMS) : RITUAL_ITEMS[i] \in Range(loc_items)

\* faulty ritual test: the last required item is not looked at
leading_ritual_items_present(loc_items) ==
    \A i \in 1..(Len(RITUAL_ITEMS) - 1) : RITUAL_ITEMS[i] \in Range(loc_items)

\* the test of _check_ritual: all(name_r in locationn.items for name_r in RITUAL_ITEMS)
all_ritual_items_present(loc_items) ==
    \A i \in 1..Len(RITUAL_ITEMS) : RITUAL_ITEMS[i] \in Range(loc_items)

\* the removal loop of _check_ritual
RECURSIVE RemoveRitualItems(_, _)
RemoveRitualItems(loc_items, i) ==
    IF i > Len(RITUAL_ITEMS) THEN loc_items
    ELSE RemoveRitualItems(ListRemove(loc_items, RITUAL_ITEMS[i]), i + 1)

\* faulty _check_ritual: sets the flag and the stage, spawns the artifact,
\* but leaves the three required items in the location's list
check_ritual_keeps_items(g) ==
    IF g.st.ritual_complete THEN g
    ELSE IF ~(\A i \in 1..Len(RITUAL_ITEMS) : RITUAL_ITEMS[i] \in Range(g.loc_items))
    THEN g
    ELSE [st        |-> [g.st EXCEPT !.ritual_complete = TRUE,
                                     !.game_stage = "ritual_done"],
          loc_items |-> Append(g.loc_items, "backup_usb"),
          score     |-> g.score + RITUAL_BONUS,
          pos       |-> [g.pos EXCEPT !["backup_usb"] = RITUAL_LOCATION_ID]]

\* faulty _check_ritual: the artifact appears although items are missing
check_ritual_spawns_early(g) ==
    IF g.st.ritual_complete THEN g
    ELSE IF ~all_ritual_items_present(g.loc_items)
    THEN [g EXCEPT !.loc_items = Append(g.loc_items, "backup_usb"),
                   !.pos = [g.pos EXCEPT !["backup_usb"] = RITUAL_LOCATION_ID]]
    ELSE LET st1     == [g.st EXCEPT !.ritual_complete = TRUE,
                                     !.game_stage = "ritual_done"]
             removed == RemoveRitualItems(g.loc_items, 1)
         IN  [st        |-> st1,
              loc_items |-> Append(removed, "backup_usb"),
              score     |-> add_score(g.score, RITUAL_BONUS),
              pos       |-> [g.pos EXCEPT !["backup_usb"] = RITUAL_LOCATION_ID]]

\* faulty _check_ritual: the stage is left as it was
check_ritual_keeps_stage(g) ==
    IF g.st.ritual_complete THEN g
    ELSE IF ~all_ritual_items_present(g.loc_items) THEN g
    ELSE LET st1     == [g.st EXCEPT !.ritual_complete = TRUE]
             removed == RemoveRitualItems(g.loc_items, 1)
         IN  [st        |-> st1,
              loc_items |-> Append(removed, "backup_usb"),
              score     |-> add_score(g.score, RITUAL_BONUS),
              pos       |-> [g.pos EXCEPT !["backup_usb"] = RITUAL_LOCATION_ID]]

\* faulty _check_ritual: the dissolved items are forgotten
check_ritual_forgets(g) ==
    IF g.st.ritual_complete THEN g
    ELSE IF ~all_ritual_items_present(g.loc_items) THEN g
    ELSE LET st1     == [g.st EXCEPT !.ritual_complete = TRUE,
                                     !.game_stage = "ritual_done",
                                     !.items_collected = @ \ required]
             removed == RemoveRitualItems(g.loc_items, 1)
         IN  [st        |-> st1,
              loc_items |-> Append(removed, "backup_usb"),
              score     |-> add_score(g.score, RITUAL_BONUS),
              pos       |-> [g.pos EXCEPT !["backup_usb"] = RITUAL_LOCATION_ID]]

\* AdventureGame._check_ritual on g = [st, loc_items, score, pos]
check_ritual(g) ==
    IF g.st.ritual_complete THEN g
    ELSE IF ~all_ritual_items_present(g.loc_items) THEN g
    ELSE LET st1     == [g.st EXCEPT !.ritual_complete = TRUE,
                                     !.game_stage = "ritual_done"]
             removed == RemoveRitualItems(g.loc_items, 1)
             backup  == get_item("backup_usb")
         IN  IF backup # None
             THEN [st        |-> st1,
                   loc_items |-> Append(removed, "backup_usb"),
                   score     |-> add_score(g.score, RITUAL_BONUS),
                   pos       |-> [g.pos EXCEPT ![backup] = RITUAL_LOCATION_ID]]
             ELSE [g EXCEPT !.st = st1, !.loc_items = removed]

\* faulty _consume_coffee: the bonus is granted on every coffee pickup
consume_coffee_again(c) ==
    [st        |-> [c.st EXCEPT !.coffee_consumed = TRUE],
     inv       |-> remove_item(c.inv, "coffee")[2],
     max_moves |-> c.max_moves + COFFEE_BONUS_MOVES]

\* AdventureGame._consume_coffee on c = [st, inv, max_moves]
consume_coffee(c) ==
    IF c.st.coffee_consumed THEN c
    ELSE [st        |-> [c.st EXCEPT !.coffee_consumed = TRUE],
          inv       |-> remove_item(c.inv, "coffee")[2],
          max_moves |-> c.max_moves + COFFEE_BONUS_MOVES]


(***************************************************************************)
(* The session's command handlers.  Each is the whole method: it gives the *)
(* next value of every field the method can reach (the tuple core).        *)
(***************************************************************************)
core == <<current_location_id, max_moves, inventory, score, moves_made,
          available_commands, items, current_position, state, game_logs>>

\* the keys of _locations
locations == DOMAIN items

\* AdventureGame.get_location().items
here_items == items[current_location_id]

\* the success test of go_command
go_succeeds(direction) ==
    LET command == <<"go", direction>>
        table   == available_commands[current_location_id]
    IN  command \in DOMAIN table /\ table[command].isint

\* faulty go_command: a failed attempt still costs a move
go_command_counts_failures(direction) ==
    LET command == <<"go", direction>>
        table   == available_commands[current_location_id]
    IN  IF command \in DOMAIN table /\ table[command].isint
        THEN /\ current_location_id' = table[command].id
             /\ moves_made' = moves_made + 1
             /\ game_logs' = add_event(game_logs,
                                       Event(table[command].id,
                                             long_description(table[command].id)),
                                       command)
             /\ state' = check_stage_messages(state)
             /\ UNCHANGED <<max_moves, inventory, score, available_commands,
                            items, current_position>>
        ELSE /\ moves_made' = moves_made + 1
             /\ UNCHANGED <<current_location_id, max_moves, inventory, score,
                            available_commands, items, current_position, state,
                            game_logs>>

\* faulty go_command: a failed attempt is logged as a visit of the current
\* location
go_command_logs_failures(direction) ==
    LET command == <<"go", direction>>
        table   == available_commands[current_location_id]
    IN  IF command \in DOMAIN table /\ table[command].isint
        THEN /\ current_location_id' = table[command].id
             /\ moves_made' = moves_made + 1
             /\ game_logs' = add_event(game_logs,
                                       Event(table[command].id,
                                             long_description(table[command].id)),
                                       command)
             /\ state' = check_stage_messages(state)
             /\ UNCHANGED <<max_moves, inventory, score, available_commands,
                            items, current_position>>
        ELSE /\ game_logs' = add_event(game_logs,
                                       Event(current_location_id,
                                             long_description(current_location_id)),
                                       command)
             /\ UNCHANGED <<current_location_id, max_moves, inventory, score,
                            moves_made, available_commands, items,
                            current_position, state>>

\* faulty go_command: the event logged is that of the location left
go_command_logs_origin(direction) ==
    LET command == <<"go", direction>>
        table   == available_commands[current_location_id]
    IN  IF go_succeeds(direction)
        THEN /\ current_location_id' = table[command].id
             /\ moves_made' = increment_moves(moves_made)
             /\ game_logs' = add_event(game_logs,
                                       Event(current_location_id,
                                             long_description(current_location_id)),
                                       command)
             /\ state' = check_stage_messages(state)
             /\ UNCHANGED <<max_moves, inventory, score, available_commands,
                            items, current_position>>
        ELSE UNCHANGED core

\* AdventureGame.go_command.  When the destination is no key of _locations,
\* get_location() raises KeyError after the first two assignments and the
\* call ends there.
go_command(direction) ==
    LET command == <<"go", direction>>
        table   == available_commands[current_location_id]
    IN  IF go_succeeds(direction)
        THEN IF table[command].id \in locations
             THEN /\ current_location_id' = table[command].id
                  /\ moves_made' = increment_moves(moves_made)
                  /\ game_logs' = add_event(game_logs,
                                            Event(table[command].id,
                                                  long_description(table[command].id)),
                                            command)
                  /\ state' = check_stage_messages(state)
                  /\ UNCHANGED <<max_moves, inventory, score, available_commands,
                                 items, current_position>>
             ELSE /\ current_location_id' = table[command].id
                  /\ moves_made' = increment_moves(moves_made)
                  /\ UNCHANGED <<max_moves, inventory, score, available_commands,
                                 items, current_position, state, game_logs>>
        ELSE UNCHANGED core

\* faulty success test of take_command: the item need not be here
take_succeeds_anywhere(taking_item_name) == get_item(taking_item_name) # None

\* the success test of take_command
take_succeeds(taking_item_name) ==
    /\ get_item(taking_item_name) # None
    /\ FirstMatch(here_items, taking_item_name) # None

\* AdventureGame.take_command
take_command(taking_item_name) ==
    LET itemm        == get_item(taking_item_name)
        matched_name == FirstMatch(here_items, taking_item_name)
    IN  IF ~take_succeeds(taking_item_name)
        THEN UNCHANGED core
        ELSE LET st1 == [state EXCEPT !.items_collected = @ \cup {itemm}]
                 c0  == [st |-> st1, inv |-> add_item(inventory, itemm),
                         max_moves |-> max_moves]
                 c1  == IF lower(itemm) = "coffee" THEN consume_coffee(c0) ELSE c0
             IN  /\ items' = [items EXCEPT ![current_location_id] =
                                               ListRemove(@, matched_name)]
                 /\ current_position' = [current_position EXCEPT ![itemm] = HELD]
                 /\ score' = add_score(score, ItemDef(itemm).pickup_points)
                 /\ inventory' = c1.inv
                 /\ state' = c1.st
                 /\ max_moves' = c1.max_moves
                 /\ UNCHANGED <<current_location_id, moves_made,
                                available_commands, game_logs>>

\* the success test of drop_command
drop_succeeds(item__name) == remove_item(inventory, item__name)[1] # None

\* faulty award: target points are given wherever the item is dropped
drop_award_anywhere(itemm) == ItemDef(itemm).target_points

\* the target-points award of drop_command
drop_award(itemm) ==
    IF /\ current_location_id = ItemDef(itemm).target_position
       /\ ItemDef(itemm).target_points > 0
    THEN ItemDef(itemm).target_points ELSE 0

\* AdventureGame.drop_command
drop_command(item__name) ==
    LET removed == remove_item(inventory, item__name)
        itemm   == removed[1]
    IN  IF itemm = None
        THEN UNCHANGED core
        ELSE LET g0 == [st        |-> state,
                        loc_items |-> Append(here_items, itemm),
                        score     |-> add_score(score, drop_award(itemm)),
                        pos       |-> [current_position EXCEPT
                                          ![itemm] = current_location_id]]
                 g1 == IF current_location_id = RITUAL_LOCATION_ID
                       THEN check_ritual(g0) ELSE g0
             IN  /\ inventory' = removed[2]
                 /\ items' = [items EXCEPT ![current_location_id] = g1.loc_items]
                 /\ current_position' = g1.pos
                 /\ score' = g1.score
                 /\ state' = g1.st
                 /\ UNCHANGED <<current_location_id, max_moves, moves_made,
                                available_commands, game_logs>>

\* faulty success test of examine_command: names are compared as typed
examine_succeeds_exact(item__name) ==
    /\ get_item(item__name) # None
    /\ \/ item__name \in Range(inventory)
       \/ item__name \in Range(here_items)

\* the success test of examine_command
examine_succeeds(item__name) ==
    /\ get_item(item__name) # None
    /\ \/ has_item(inventory, item__name)
       \/ \E i \in 1..Len(here_items) : lower(here_items[i]) = lower(item__name)

\* AdventureGame.examine_command (prints only)
examine_command(item__name) == UNCHANGED core

\* faulty success test of enter_code_command: the unlocked door accepts the
\* code again
code_accepted_again(code) ==
    /\ current_location_id = KEYPAD_LOCATION_ID
    /\ lower(code) # "cancel"
    /\ code = state.puzzle_code

\* the success test of enter_code_command
code_accepted(code) ==
    /\ current_location_id = KEYPAD_LOCATION_ID
    /\ ~state.server_room_unlocked
    /\ lower(code) # "cancel"
    /\ code = state.puzzle_code

\* AdventureGame.enter_code_command, with the line read from input
enter_code_command(code) ==
    IF code_accepted(code)
    THEN /\ state' = [state EXCEPT !.server_room_unlocked = TRUE]
         /\ available_commands' =
                [available_commands EXCEPT ![KEYPAD_LOCATION_ID] =
                    DictPut(@, <<"go", "south">>, IntResult(SERVER_ROOM_DEST))]
         /\ score' = add_score(score, KEYPAD_BONUS)
         /\ UNCHANGED <<current_location_id, max_moves, inventory, moves_made,
                        items, current_position, game_logs>>
    ELSE UNCHANGED core

\* the success test of read_note_command
note_readable ==
    /\ get_item("note") # None
    /\ (has_item(inventory, "note") \/ "note" \in Range(here_items))

\* AdventureGame.read_note_command (prints only)
read_note_command == UNCHANGED core

\* faulty check_win: holding the artifact at home also counts
check_win_when_held ==
    IF current_location_id # DORM_LOCATION_ID THEN FALSE
    ELSE "backup_usb" \in Range(here_items) \cup Range(inventory)

\* AdventureGame.check_win
check_win ==
    IF current_location_id # DORM_LOCATION_ID THEN FALSE
    ELSE "backup_usb" \in Range(here_items)

\* faulty check_lose: the limit itself is still allowed
check_lose_late == moves_made > max_moves

\* AdventureGame.check_lose
check_lose == moves_made >= max_moves

(***************************************************************************)
(* Initial state: AdventureGame.__init__ on the loader output              *)
(***************************************************************************)
InitialState ==
    [server_room_unlocked |-> FALSE, coffee_consumed |-> FALSE,
     puzzle_code |-> DefaultPuzzleCode, game_stage |-> "start",
     items_collected |-> {}, ritual_complete |-> FALSE]

\* a freshly constructed session on a world whose locations list loc_items
\* and have the transition tables commands, next to the event list log
FreshWorld(loc_items, commands, log) ==
    /\ current_location_id = DORM_LOCATION_ID
    /\ ongoing = TRUE
    /\ ending = "none"
    /\ max_moves = BASE_MAX_MOVES
    /\ inventory = <<>>
    /\ score = 0
    /\ moves_made = 0
    /\ available_commands = commands
    /\ items = loc_items
    /\ visited = [l \in DOMAIN loc_items |-> FALSE]
    /\ current_position = [n \in ItemNames |-> ItemDef(n).start_position]
    /\ state = InitialState
    /\ game_logs = log
    /\ current_location = DORM_LOCATION_ID
    /\ lastOp = [op |-> "init", arg |-> "", ok |-> TRUE]
    /\ hist = <<>>
    /\ go_ok = 0
    /\ takes = 0

\* the same with the sample transition tables and an empty event list
Fresh(loc_items) ==
    FreshWorld(loc_items, [l \in DOMAIN loc_items |-> InitialCommands[l]],
               EmptyEventList)

Init ==
    /\ Fresh(InitialItems)
    /\ driver \in {"api", "loop"}

(***************************************************************************)
(* A caller driving the session through its methods                        *)
(***************************************************************************)
\* history: the command just processed; the argument is kept for the
\* commands that changed something
Record(op, arg, ok) ==
    lastOp' = [op |-> op, arg |-> IF ok THEN arg ELSE "", ok |-> ok]

\* a call of a method by a caller whose earlier calls all returned
ApiCall == driver = "api" /\ current_location_id \in locations

GoCommand(direction) ==
    /\ ApiCall
    /\ moves_made < MaxApiMoves
    /\ go_command(direction)
    /\ Record("go", direction, go_succeeds(direction))
    /\ go_ok' = IF go_succeeds(direction) THEN go_ok + 1 ELSE go_ok
    /\ UNCHANGED <<ongoing, ending, hist, visited, driver,
                   current_location, takes>>

TakeCommand(name) ==
    /\ ApiCall
    /\ takes < MaxTakes
    /\ take_command(name)
    /\ Record("take", name, take_succeeds(name))
    /\ takes' = IF take_succeeds(name) THEN takes + 1 ELSE takes
    /\ UNCHANGED <<ongoing, ending, hist, visited, driver,
                   current_location, go_ok>>

DropCommand(name) ==
    /\ ApiCall
    /\ drop_command(name)
    /\ Record("drop", name, drop_succeeds(name))
    /\ UNCHANGED <<ongoing, ending, hist, visited, driver,
                   current_location, go_ok, takes>>

ExamineCommand(name) ==
    /\ ApiCall
    /\ examine_command(name)
    /\ Record("examine", "", examine_succeeds(name))
    /\ UNCHANGED <<ongoing, ending, hist, visited, driver,
                   current_location, go_ok, takes>>

EnterCodeCommand(code) ==
    /\ ApiCall
    /\ enter_code_command(code)
    /\ Record("enter code", code, code_accepted(code))
    /\ UNCHANGED <<ongoing, ending, hist, visited, driver,
                   current_location, go_ok, takes>>

ReadNoteCommand ==
    /\ ApiCall
    /\ read_note_command
    /\ Record("read note", "", note_readable)
    /\ UNCHANGED <<ongoing, ending, hist, visited, driver,
                   current_location, go_ok, takes>>

\* look_command, inventory_command, score_command: print only
MenuCommand(which) ==
    /\ ApiCall
    /\ Record("menu", "", TRUE)
    /\ UNCHANGED <<core, ongoing, ending, hist, visited, driver,
                   current_location, go_ok, takes>>

ApiNext ==
    \/ \E d \in Directions : GoCommand(d)
    \/ \E n \in TypedNames : TakeCommand(n)
    \/ \E n \in TypedNames : DropCommand(n)
    \/ \E n \in ExaminedNames : ExamineCommand(n)
    \/ \E c \in TypedCodes : EnterCodeCommand(c)
    \/ ReadNoteCommand
    \/ \E w \in {"look", "inventory", "score"} : MenuCommand(w)

(***************************************************************************)
(* The interactive loop of __main__: one action is one iteration of        *)
(* `while game.ongoing`, from building the command table to the win/lose   *)
(* check.  The typed choice is one the validation loop accepts.            *)
(***************************************************************************)
menu == {"look", "inventory", "score", "log", "quit"}

\* f"action:<action>:<payload>"
TagResult(action, payload) ==
    [isint |-> FALSE, id |-> -1, tag |-> action, payload |-> payload]

\* str(result).split(":", maxsplit=2)[1]
ActionOf(result) ==
    IF result.tag = "action:puzzle_check" THEN "puzzle_check" ELSE result.tag

\* last name of a list whose lowered form is low (a later dict assignment
\* overwrites an earlier one)
LastMatch(names, low) ==
    LET hits == {i \in 1..Len(names) : lower(names[i]) = low}
    IN  names[CHOOSE i \in hits : \A j \in hits : j <= i]

HasMatch(names, low) == \E i \in 1..Len(names) : lower(names[i]) = low

\* the keypad command is offered
keypad_offered ==
    current_location_id = KEYPAD_LOCATION_ID /\ ~state.server_room_unlocked

\* the keys of the dict `commands` built at the top of an iteration
LoopKeys ==
    (DOMAIN available_commands[current_location_id])
    \cup {<<"take", lower(here_items[i])>> : i \in 1..Len(here_items)}
    \cup {<<"examine", lower(here_items[i])>> : i \in 1..Len(here_items)}
    \cup {<<"drop", lower(inventory[i])>> : i \in 1..Len(inventory)}
    \cup {<<"examine", lower(inventory[i])>> : i \in 1..Len(inventory)}
    \cup {<<"read", "note">>}
    \cup (IF keypad_offered THEN {<<"enter", "code">>} ELSE {})

\* commands[k] for a key k of that dict: the last assignment made to it
LoopCommands(k) ==
    IF keypad_offered /\ k = <<"enter", "code">> THEN TagResult("keypad", "")
    ELSE IF k = <<"read", "note">> THEN TagResult("read_note", "")
    ELSE IF k[1] \in {"drop", "examine"} /\ HasMatch(inventory, k[2])
         THEN TagResult(k[1], LastMatch(inventory, k[2]))
    ELSE IF k[1] \in {"take", "examine"} /\ HasMatch(here_items, k[2])
         THEN TagResult(k[1], LastMatch(here_items, k[2]))
    ELSE available_commands[current_location_id][k]

\* faulty end of iteration: the lose check is missing
EndIteration_no_lose ==
    /\ visited' = [visited EXCEPT ![current_location_id] = TRUE,
                                  ![current_location_id'] = TRUE]
    /\ ongoing' = IF check_win' THEN FALSE ELSE TRUE
    /\ ending' = IF check_win' THEN "win" ELSE "none"

\* faulty end of iteration: the lose check comes first
EndIteration_lose_first ==
    /\ visited' = [visited EXCEPT ![current_location_id] = TRUE,
                                  ![current_location_id'] = TRUE]
    /\ ongoing' = IF check_lose' THEN FALSE
                  ELSE IF check_win' THEN FALSE ELSE TRUE
    /\ ending' = IF check_lose' THEN "lose"
                 ELSE IF check_win' THEN "win" ELSE "none"

\* the location display at the top and at the bottom of an iteration, and
\* the win/lose check that ends it
EndIteration ==
    /\ visited' = [visited EXCEPT ![current_location_id] = TRUE,
                                  ![current_location_id'] = TRUE]
    /\ ongoing' = IF check_win' THEN FALSE
                  ELSE IF check_lose' THEN FALSE ELSE TRUE
    /\ ending' = IF check_win' THEN "win"
                 ELSE IF check_lose' THEN "lose" ELSE "none"

\* choice in menu, other than quit
loop_menu(choice) ==
    /\ ongoing
    /\ choice \in menu \ {"quit"}
    /\ UNCHANGED core
    /\ Record("menu", "", TRUE)
    /\ EndIteration
    /\ UNCHANGED <<driver, current_location, hist, go_ok, takes>>

LoopMenu(choice) ==
    /\ driver = "loop"
    /\ loop_menu(choice)

\* choice == "quit"
loop_quit ==
    /\ ongoing
    /\ UNCHANGED core
    /\ Record("quit", "", TRUE)
    /\ visited' = [visited EXCEPT ![current_location_id] = TRUE]
    /\ ongoing' = FALSE
    /\ ending' = "quit"
    /\ UNCHANGED <<driver, current_location, hist, go_ok, takes>>

LoopQuit ==
    /\ driver = "loop"
    /\ loop_quit

\* isinstance(result, int): a location change command
loop_move(choice) ==
    /\ ongoing
    /\ choice \in LoopKeys
    /\ LoopCommands(choice).isint
    /\ current_location_id' = LoopCommands(choice).id
    /\ IF choice[1] = "go"
       THEN /\ moves_made' = increment_moves(moves_made)
            /\ state' = check_stage_messages(state)
            /\ go_ok' = go_ok + 1
       ELSE UNCHANGED <<moves_made, state, go_ok>>
    /\ UNCHANGED <<max_moves, inventory, score, available_commands, items,
                   current_position, game_logs>>
    /\ Record(choice[1], choice[2], TRUE)
    /\ EndIteration
    /\ UNCHANGED <<driver, current_location, hist, takes>>

LoopMove(choice) ==
    /\ driver = "loop"
    /\ moves_made < MaxLoopMoves
    /\ loop_move(choice)

\* action == "take"
loop_take(choice) ==
    /\ ongoing
    /\ choice \in LoopKeys
    /\ ~LoopCommands(choice).isint
    /\ ActionOf(LoopCommands(choice)) = "take"
    /\ take_command(LoopCommands(choice).payload)
    /\ Record("take", LoopCommands(choice).payload,
              take_succeeds(LoopCommands(choice).payload))
    /\ takes' = IF take_succeeds(LoopCommands(choice).payload)
                THEN takes + 1 ELSE takes
    /\ EndIteration
    /\ UNCHANGED <<driver, current_location, hist, go_ok>>

LoopTake(choice) ==
    /\ driver = "loop"
    /\ takes < MaxTakes
    /\ loop_take(choice)

\* action == "drop"
LoopDrop(choice) ==
    /\ driver = "loop" /\ ongoing
    /\ choice \in LoopKeys
    /\ ~LoopCommands(choice).isint
    /\ ActionOf(LoopCommands(choice)) = "drop"
    /\ drop_command(LoopCommands(choice).payload)
    /\ Record("drop", LoopCommands(choice).payload,
              drop_succeeds(LoopCommands(choice).payload))
    /\ EndIteration
    /\ UNCHANGED <<driver, current_location, hist, go_ok, takes>>

\* action == "examine"
LoopExamine(choice) ==
    /\ driver = "loop" /\ ongoing
    /\ choice \in LoopKeys
    /\ ~LoopCommands(choice).isint
    /\ ActionOf(LoopCommands(choice)) = "examine"
    /\ examine_command(LoopCommands(choice).payload)
    /\ Record("examine", "", examine_succeeds(LoopCommands(choice).payload))
    /\ EndIteration
    /\ UNCHANGED <<driver, current_location, hist, go_ok, takes>>

\* action == "read_note"
LoopReadNote ==
    /\ driver = "loop" /\ ongoing
    /\ ActionOf(LoopCommands(<<"read", "note">>)) = "read_note"
    /\ read_note_command
    /\ Record("read note", "", note_readable)
    /\ EndIteration
    /\ UNCHANGED <<driver, current_location, hist, go_ok, takes>>

\* action == "keypad"
loop_keypad(code) ==
    /\ ongoing
    /\ <<"enter", "code">> \in LoopKeys
    /\ ActionOf(LoopCommands(<<"enter", "code">>)) = "keypad"
    /\ enter_code_command(code)
    /\ Record("enter code", code, code_accepted(code))
    /\ EndIteration
    /\ UNCHANGED <<driver, current_location, hist, go_ok, takes>>

LoopKeypad(code) ==
    /\ driver = "loop"
    /\ loop_keypad(code)

\* a special-action tag of the transition table that no branch handles
LoopUnhandledTag(choice) ==
    /\ driver = "loop" /\ ongoing
    /\ choice \in LoopKeys
    /\ ~LoopCommands(choice).isint
    /\ ActionOf(LoopCommands(choice))
           \notin {"take", "drop", "examine", "read_note", "keypad"}
    /\ UNCHANGED core
    /\ Record(choice[1], "", FALSE)
    /\ EndIteration
    /\ UNCHANGED <<driver, current_location, hist, go_ok, takes>>

\* what can be typed at the prompt
TypedChoices ==
    {<<"go", d>> : d \in Directions}
    \cup {<<v, lower(n)>> : v \in {"take", "drop", "examine"}, n \in ItemNames}
    \cup {<<"climb", "stairs">>}

LoopNext ==
    \/ \E w \in menu : LoopMenu(w)
    \/ LoopQuit
    \/ \E k \in TypedChoices : LoopMove(k)
    \/ \E k \in TypedChoices : LoopTake(k)
    \/ \E k \in TypedChoices : LoopDrop(k)
    \/ \E k \in TypedChoices : LoopExamine(k)
    \/ LoopReadNote
    \/ \E c \in TypedCodes : LoopKeypad(c)
    \/ \E k \in TypedChoices : LoopUnhandledTag(k)

Next == ApiNext \/ LoopNext

\* a caller of the methods, or the interactive loop
Spec == Init /\ [][Next]_vars

\* a caller of the methods only
ApiInit == Init /\ driver = "api"

ApiSpec == ApiInit /\ [][ApiNext]_vars

\* the interactive loop only
LoopInit == Init /\ driver = "loop"

LoopSpec == LoopInit /\ [][LoopNext]_vars

(***************************************************************************)
(* The interactive loop with a player who only walks and picks up coffee:  *)
(* the session runs until the loop's lose check ends it.                   *)
(***************************************************************************)
WalkMove(direction) ==
    /\ driver = "walk"
    /\ loop_move(<<"go", direction>>)

WalkTake ==
    /\ driver = "walk"
    /\ loop_take(<<"take", "coffee">>)

WalkNext ==
    \/ \E d \in Directions : WalkMove(d)
    \/ WalkTake

WalkInit == Fresh(InitialItems) /\ driver = "walk"

WalkSpec == WalkInit /\ [][WalkNext]_vars

(***************************************************************************)
(* The same player, who also uses the keypad, looks around and may quit,   *)
(* in a world whose data lists the artifact at the home location from the  *)
(* start: there the move that uses up the limit can also be a winning one. *)
(***************************************************************************)
WalkKeypad(code) ==
    /\ driver = "walk"
    /\ loop_keypad(code)

WalkMenu ==
    /\ driver = "walk"
    /\ loop_menu("look")

WalkQuit ==
    /\ driver = "walk"
    /\ loop_quit

EndNext ==
    \/ WalkNext
    \/ \E c \in TypedCodes : WalkKeypad(c)
    \/ WalkMenu
    \/ WalkQuit

ArtifactAtHomeItems ==
    [l \in LocationIds |->
        CASE l = 0  -> <<"backup_usb">>
          [] l = 7  -> <<"coffee">>
          [] OTHER  -> <<>>]

EndInit == Fresh(ArtifactAtHomeItems) /\ driver = "walk"

EndSpec == EndInit /\ [][EndNext]_vars

(***************************************************************************)
(* A caller of the methods in a world without a location 12.  Every integer *)
(* destination of its transition tables is one of its locations.           *)
(***************************************************************************)
NoServerRoomItems ==
    [l \in {0, 7, 10} |->
        CASE l = 0  -> <<"Lucky Mug">>
          [] l = 7  -> <<"coffee">>
          [] OTHER  -> <<>>]

NoServerRoomInit == Fresh(NoServerRoomItems) /\ driver = "api"

NoServerRoomSpec == NoServerRoomInit /\ [][ApiNext]_vars

(***************************************************************************)
(* A caller of the methods in a world where coffee can be obtained twice:  *)
(* two locations list it.                                                  *)
(***************************************************************************)
TwoCoffeeItems ==
    [l \in LocationIds |->
        CASE l = 0  -> <<"Lucky Mug", "coffee">>
          [] l = 7  -> <<"coffee">>
          [] OTHER  -> <<>>]

CoffeeInit == Fresh(TwoCoffeeItems) /\ driver = "api"

CoffeeSpec == CoffeeInit /\ [][ApiNext]_vars

(***************************************************************************)
(* A caller of an EventList: add_event with a fresh Event each time, with  *)
(* or without a command, and remove_last_event, in any order.              *)
(***************************************************************************)
LogIds == {DORM_LOCATION_ID, KEYPAD_LOCATION_ID}

LogCommandsGiven == {NoCommand, <<"go", "east">>}

LogAdd(id, command) ==
    /\ driver = "log"
    /\ Len(hist) < MaxLogOps
    /\ game_logs' = add_event(game_logs, Event(id, long_description(id)), command)
    /\ lastOp' = [op |-> "add", arg |-> command, ok |-> TRUE]
    /\ hist' = Append(hist, [op |-> "add", id_num |-> id, command |-> command,
                             ids |-> get_id_log(game_logs')])
    /\ UNCHANGED <<current_location_id, ongoing, ending, max_moves, inventory,
                   score, moves_made, available_commands, items, visited,
                   current_position, state, driver, current_location,
                   go_ok, takes>>

LogRemove ==
    /\ driver = "log"
    /\ Len(hist) < MaxLogOps
    /\ game_logs' = remove_last_event(game_logs)
    /\ lastOp' = [op |-> "remove", arg |-> NoCommand, ok |-> ~is_empty(game_logs)]
    /\ hist' = Append(hist, [op |-> "remove", id_num |-> 0, command |-> NoCommand,
                             ids |-> get_id_log(game_logs')])
    /\ UNCHANGED <<current_location_id, ongoing, ending, max_moves, inventory,
                   score, moves_made, available_commands, items, visited,
                   current_position, state, driver, current_location,
                   go_ok, takes>>

LogNext ==
    \/ \E id \in LogIds, command \in LogCommandsGiven : LogAdd(id, command)
    \/ LogRemove

LogInit == Fresh(InitialItems) /\ driver = "log"

LogSpec == LogInit /\ [][LogNext]_vars

(***************************************************************************)
(* The interactive loop in a world whose dorm room has, besides its go     *)
(* commands, a command of another verb that leads to a location.           *)
(***************************************************************************)
StairsTables ==
    [l \in LocationIds |->
        IF l = DORM_LOCATION_ID
        THEN InitialCommands[l] @@
             (<<"climb", "stairs">> :> IntResult(RITUAL_LOCATION_ID))
        ELSE InitialCommands[l]]

StairsItems ==
    [l \in LocationIds |->
        CASE l = 0  -> <<"Lucky Mug">>
          [] l = 7  -> <<"coffee">>
          [] OTHER  -> <<>>]

StairsInit ==
    /\ FreshWorld(StairsItems, StairsTables, EmptyEventList)
    /\ driver = "loop"

StairsSpec == StairsInit /\ [][LoopNext]_vars

(***************************************************************************)
(* A caller of go, take and drop who may repeat take and drop as often as  *)
(* wanted, in a world with one item; the calls stop once the score has     *)
(* passed MAX_SCORE.                                                       *)
(***************************************************************************)
RepeatItems ==
    [l \in LocationIds |-> IF l = DORM_LOCATION_ID THEN <<"USB Drive">> ELSE <<>>]

RepeatGo(direction) ==
    /\ driver = "repeat"
    /\ moves_made < MaxApiMoves
    /\ go_command(direction)
    /\ Record("go", direction, go_succeeds(direction))
    /\ go_ok' = IF go_succeeds(direction) THEN go_ok + 1 ELSE go_ok
    /\ UNCHANGED <<ongoing, ending, hist, visited, driver,
                   current_location, takes>>

RepeatTake(name) ==
    /\ driver = "repeat"
    /\ score <= MAX_SCORE
    /\ take_command(name)
    /\ Record("take", name, take_succeeds(name))
    /\ takes' = IF take_succeeds(name) THEN takes + 1 ELSE takes
    /\ UNCHANGED <<ongoing, ending, hist, visited, driver,
                   current_location, go_ok>>

RepeatDrop(name) ==
    /\ driver = "repeat"
    /\ score <= MAX_SCORE
    /\ drop_command(name)
    /\ Record("drop", name, drop_succeeds(name))
    /\ UNCHANGED <<ongoing, ending, hist, visited, driver,
                   current_location, go_ok, takes>>

RepeatNext ==
    \/ \E d \in Directions : RepeatGo(d)
    \/ RepeatTake("usb drive")
    \/ RepeatDrop("usb drive")

RepeatInit == Fresh(RepeatItems) /\ driver = "repeat"

RepeatSpec == RepeatInit /\ [][RepeatNext]_vars

(***************************************************************************)
(* A caller of the methods who has logged the starting location in the     *)
(* event list before the first command, as the simulation does.            *)
(***************************************************************************)
SeededInit ==
    /\ FreshWorld(InitialItems, InitialCommands,
                  add_event(EmptyEventList,
                            Event(DORM_LOCATION_ID,
                                  long_description(DORM_LOCATION_ID)),
                            NoCommand))
    /\ driver = "api"

SeededSpec == SeededInit /\ [][ApiNext]_vars

(***************************************************************************)
(* AdventureGameSimulation: __init__ logs the initial location, then       *)
(* generate_events handles the commands in order; one action is one        *)
(* iteration of its for loop.  The game object is only read.               *)
(***************************************************************************)
\* the sample tables with a "talk to friend" command in the dorm room
SimTables ==
    [l \in LocationIds |->
        IF l = DORM_LOCATION_ID
        THEN InitialCommands[l] @@
             (<<"talk", "to friend">> :> StrResult("action:talk"))
        ELSE InitialCommands[l]]

\* commands of the lists given to the simulation
SimCommandSet ==
    {<<"go", d>> : d \in Directions}
    \cup {<<"talk", "to friend">>, <<"take", "usb drive">>,
          <<"drop", "usb drive">>, <<"examine", "usb drive">>,
          <<"look", "">>, <<"inventory", "">>}

\* a walkthrough that makes more moves than the budget allows
LoseDemo ==
    [k \in 1..LoseDemoLength |->
        IF k % 2 = 1 THEN <<"go", "east">> ELSE <<"go", "west">>]

\* the commands handled so far
Handled == [k \in 1..Len(hist) |-> hist[k].command]

\* command can be the next one of a list given to the simulation: any list
\* of at most MaxSimCommands commands, or the walkthrough
NextOfList(command) ==
    \/ Len(hist) < MaxSimCommands
    \/ /\ Len(hist) < LoseDemoLength
       /\ Handled = SubSeq(LoseDemo, 1, Len(hist))
       /\ command = LoseDemo[Len(hist) + 1]

\* faulty iteration of generate_events: current_location is not advanced
generate_events_stale(command) ==
    LET table == available_commands[current_location]
        here  == Event(current_location, long_description(current_location))
    IN  /\ game_logs' =
              IF command[1] = "go"
              THEN IF command \in DOMAIN table
                   THEN IF table[command].tag = "action:puzzle_check"
                        THEN add_event(game_logs,
                                       Event(PUZZLE_CHECK_DEST,
                                             long_description(PUZZLE_CHECK_DEST)),
                                       command)
                        ELSE IF table[command].isint
                        THEN add_event(game_logs,
                                       Event(table[command].id,
                                             long_description(table[command].id)),
                                       command)
                        ELSE game_logs
                   ELSE game_logs
              ELSE IF command = <<"talk", "to friend">>
              THEN IF command \in DOMAIN table
                   THEN add_event(game_logs, here, command) ELSE game_logs
              ELSE IF command[1] \in {"take", "drop", "examine"}
              THEN add_event(game_logs, here, command)
              ELSE IF command[1] \in {"look", "inventory", "score", "log"}
              THEN add_event(game_logs, here, command)
              ELSE game_logs
        /\ current_location' = current_location

\* one iteration of the for loop of generate_events
generate_events(command) ==
    LET table == available_commands[current_location]
        here  == Event(current_location, long_description(current_location))
    IN  /\ game_logs' =
              IF command[1] = "go"
              THEN IF command \in DOMAIN table
                   THEN IF table[command].tag = "action:puzzle_check"
                        THEN add_event(game_logs,
                                       Event(PUZZLE_CHECK_DEST,
                                             long_description(PUZZLE_CHECK_DEST)),
                                       command)
                        ELSE IF table[command].isint
                        THEN add_event(game_logs,
                                       Event(table[command].id,
                                             long_description(table[command].id)),
                                       command)
                        ELSE game_logs
                   ELSE game_logs
              ELSE IF command = <<"talk", "to friend">>
              THEN IF command \in DOMAIN table
                   THEN add_event(game_logs, here, command) ELSE game_logs
              ELSE IF command[1] \in {"take", "drop", "examine"}
              THEN add_event(game_logs, here, command)
              ELSE IF command[1] \in {"look", "inventory", "score", "log"}
              THEN add_event(game_logs, here, command)
              ELSE game_logs
        /\ current_location' =
              IF command[1] = "go" /\ command \in DOMAIN table
              THEN IF table[command].tag = "action:puzzle_check"
                   THEN PUZZLE_CHECK_DEST
                   ELSE IF table[command].isint THEN table[command].id
                   ELSE current_location
              ELSE current_location

SimCommand(command) ==
    /\ driver = "sim"
    /\ NextOfList(command)
    /\ generate_events(command)
    /\ lastOp' = [op |-> "sim", arg |-> command, ok |-> game_logs' # game_logs]
    /\ hist' = Append(hist, [op |-> "sim", id_num |-> current_location',
                             command |-> command,
                             ids |-> get_id_log(game_logs')])
    /\ UNCHANGED <<current_location_id, ongoing, ending, max_moves, inventory,
                   score, moves_made, available_commands, items, visited,
                   current_position, state, driver, go_ok, takes>>

SimNext == \E command \in SimCommandSet : SimCommand(command)

\* AdventureGameSimulation.__init__ up to the call of generate_events
SimInit ==
    /\ FreshWorld(InitialItems, SimTables,
                  add_event(EmptyEventList,
                            Event(DORM_LOCATION_ID,
                                  long_description(DORM_LOCATION_ID)),
                            NoCommand))
    /\ driver = "sim"

SimSpec == SimInit /\ [][SimNext]_vars

(***************************************************************************)
(* Construction of a session: AdventureGame(game_data_file, id).  Before   *)
(* the call no attribute of the object is assigned; the file's content is  *)
(* held in items and available_commands, the arguments in lastOp.          *)
(***************************************************************************)
\* an attribute that has not been assigned
Unassigned == "unassigned"

\* positional arguments of the call Player([], 0, 0, False)
PlayerArgsPassed == 4

\* parameters besides self of Player.__init__(self)
PlayerArgsAccepted == 0

\* item lists of well-formed data files
LoadedItems == [LocationIds -> {<<>>, <<"coffee">>}]

\* puzzle codes of well-formed data files
LoadedCodes == {"1827", "0000"}

ConstructInit ==
    /\ driver = "construct"
    /\ items \in LoadedItems
    /\ available_commands = InitialCommands
    /\ current_position = [n \in ItemNames |-> ItemDef(n).start_position]
    /\ \E id \in LocationIds, code \in LoadedCodes :
          lastOp = [op |-> "call",
                    arg |-> [initial_location_id |-> id, puzzle_code |-> code],
                    ok |-> TRUE]
    /\ current_location_id = Unassigned
    /\ ongoing = Unassigned
    /\ max_moves = Unassigned
    /\ inventory = Unassigned
    /\ score = Unassigned
    /\ moves_made = Unassigned
    /\ state = Unassigned
    /\ ending = "none"
    /\ visited = [l \in LocationIds |-> FALSE]
    /\ game_logs = EmptyEventList
    /\ current_location = DORM_LOCATION_ID
    /\ hist = <<>>
    /\ go_ok = 0
    /\ takes = 0

\* AdventureGame.__init__: the assignments run in order, and the call of
\* Player raises TypeError when it is given arguments __init__ does not take
Construct ==
    /\ driver = "construct"
    /\ lastOp.op = "call"
    /\ current_location_id' = lastOp.arg.initial_location_id
    /\ ongoing' = TRUE
    /\ IF PlayerArgsPassed = PlayerArgsAccepted
       THEN /\ inventory' = <<>>
            /\ score' = 0
            /\ moves_made' = 0
            /\ max_moves' = BASE_MAX_MOVES
            /\ state' = [InitialState EXCEPT
                            !.puzzle_code = lastOp.arg.puzzle_code]
            /\ lastOp' = [lastOp EXCEPT !.op = "construct"]
       ELSE /\ UNCHANGED <<inventory, score, moves_made, max_moves, state>>
            /\ lastOp' = [lastOp EXCEPT !.op = "construct", !.ok = FALSE]
    /\ UNCHANGED <<ending, available_commands, items, visited,
                   current_position, game_logs, driver, current_location,
                   hist, go_ok, takes>>

ConstructSpec == ConstructInit /\ [][Construct]_vars

(***************************************************************************)
(* Properties                                                              *)
(***************************************************************************)
ritual_items_here == items[RITUAL_LOCATION_ID]

\* a successful command of the given kind has just been processed
Did(op) == lastOp.op = op /\ lastOp.ok
Failed(op) == lastOp.op = op /\ ~lastOp.ok

\* C1: moves_made always equals the number of movement commands that
\* succeeded so far; failed movement commands and all other commands do
\* not change it.
C1_MovesCountSuccessfulGo ==
    /\ moves_made = go_ok
    /\ moves_made >= 0

\* C1 witness: two moves were made, an item was picked up, and the last
\* command was a movement command that failed.
C1_Witness == Failed("go") /\ moves_made = 2 /\ inventory # <<>>

\* C2 as stated: a successful go_command moves to the table's destination,
\* adds one move and appends one entry for the destination, the command
\* being recorded as next_command of the entry that precedes the new one.
C2_Original ==
    [][\A d \in Directions :
          (lastOp'.op = "go" /\ lastOp'.ok /\ lastOp'.arg = d) =>
              LET dest == available_commands[current_location_id][<<"go", d>>].id
                  new  == game_logs'.nodes[game_logs'.last]
              IN  /\ current_location_id' = dest
                  /\ moves_made' = moves_made + 1
                  /\ get_id_log(game_logs') = Append(get_id_log(game_logs), dest)
                  /\ new.id_num = dest
                  /\ new.prev # 0
                  /\ game_logs'.nodes[new.prev].next_command = <<"go", d>>]_vars

\* C2 amended: as above, but the command is recorded (as next_command of the
\* previous last entry) only when the log was non-empty before the call; on
\* an empty log the new entry becomes the sole entry and the command is
\* recorded nowhere.
C2_GoEffect ==
    [][\A d \in Directions :
          (lastOp'.op = "go" /\ lastOp'.ok /\ lastOp'.arg = d) =>
              LET dest == available_commands[current_location_id][<<"go", d>>].id
                  new  == game_logs'.nodes[game_logs'.last]
              IN  /\ current_location_id' = dest
                  /\ moves_made' = moves_made + 1
                  /\ get_id_log(game_logs') = Append(get_id_log(game_logs), dest)
                  /\ new.id_num = dest
                  /\ new.next_command = NoCommand
                  /\ IF is_empty(game_logs)
                     THEN /\ game_logs'.first = game_logs'.last
                          /\ new.prev = 0
                     ELSE /\ new.prev = game_logs.last
                          /\ game_logs'.nodes[new.prev].next_command = <<"go", d>>
                          /\ game_logs'.nodes[new.prev].next = game_logs'.last
                          /\ \A i \in 1..Len(game_logs.nodes) :
                                i # game_logs.last =>
                                    game_logs'.nodes[i] = game_logs.nodes[i]]_vars

\* C2 witness: a successful move has just been appended to a log that
\* already held an entry, tagged on that entry.
C2_Witness ==
    /\ Did("go")
    /\ Len(get_id_log(game_logs)) = 3
    /\ game_logs.nodes[game_logs.nodes[game_logs.last].prev].next_command
           = <<"go", lastOp.arg>>

\* C3: a go_command whose key is absent from the current transition table, or
\* maps to a special-action tag, returns False and changes nothing.
C3_FailedGoNoOp ==
    [][\A d \in Directions :
          (/\ GoCommand(d)
           /\ \/ <<"go", d>> \notin DOMAIN available_commands[current_location_id]
              \/ ~available_commands[current_location_id][<<"go", d>>].isint)
          => /\ lastOp'.op = "go" /\ ~lastOp'.ok
             /\ UNCHANGED <<current_location_id, moves_made, score, state,
                            max_moves, inventory, items, current_position,
                            available_commands, game_logs, ongoing, visited>>]_vars

\* C3 witness: a movement command has just failed at the location whose
\* table holds a special-action tag.
C3_Witness == Failed("go") /\ current_location_id = RITUAL_LOCATION_ID

\* C4: the score never decreases and is never negative.
C4_ScoreMonotone == [](score >= 0) /\ [][score' >= score]_vars

\* C4 witness: pickup, target, keypad and ritual points have all been awarded.
C4_Witness ==
    /\ state.ritual_complete
    /\ state.server_room_unlocked
    /\ score >= RITUAL_BONUS + KEYPAD_BONUS

\* C5: ritual_complete only ever changes from false to true, and the step in
\* which it does is a successful drop at the ritual location that leaves all
\* three required items together in that location's list.
C5_RitualOnce ==
    [][(state'.ritual_complete # state.ritual_complete) =>
          /\ ~state.ritual_complete /\ state'.ritual_complete
          /\ lastOp'.op = "drop" /\ lastOp'.ok
          /\ current_location_id = RITUAL_LOCATION_ID
          /\ current_location_id' = RITUAL_LOCATION_ID
          /\ required \subseteq
                 Range(Append(ritual_items_here, get_item(lastOp'.arg)))]_vars

\* C5 witness: the ritual has just fired.
C5_Witness ==
    Did("drop") /\ state.ritual_complete /\ get_item(lastOp.arg) \in required


\* the step is the one in which the ritual fires
RitualFires == ~state.ritual_complete /\ state'.ritual_complete

\* the item a drop command names
Dropped(typed) == get_item(typed)

\* number of times a name occurs in a list
Occurrences(s, x) == Cardinality({i \in 1..Len(s) : s[i] = x})

\* number of places an item is in: its occurrences in all location lists
\* plus its occurrences in the inventory
Places(n) ==
    Cardinality({p \in UNION {{<<l, i>> : i \in 1..Len(items[l])} : l \in LocationIds} :
                    items[p[1]][p[2]] = n})
    + Occurrences(inventory, n)

\* the item exists in the world: it was loaded with a start position, or it
\* is the artifact and the ritual has produced it
Spawned(n) ==
    \/ ItemDef(n).start_position # -1
    \/ n = "backup_usb" /\ state.ritual_complete

\* C6: the ritual is all-or-nothing.  In the step where it fires the stage
\* becomes ritual_done, the three required items leave the ritual location,
\* the artifact backup_usb is listed there with its placement set to that
\* location, and the ritual adds the bonus 50 to what the drop itself awards;
\* and in every state either all of these effects are there or none is.
C6_RitualAtomic ==
    /\ [](IF state.ritual_complete
          THEN /\ state.game_stage = "ritual_done"
               /\ \A r \in required : Places(r) = 0
               /\ Places("backup_usb") = 1
          ELSE /\ state.game_stage # "ritual_done"
               /\ Places("backup_usb") = 0
               /\ current_position["backup_usb"] = HELD)
    /\ [][RitualFires =>
            /\ state'.game_stage = "ritual_done"
            /\ \A r \in required : r \notin Range(items'[RITUAL_LOCATION_ID])
            /\ Occurrences(items'[RITUAL_LOCATION_ID], "backup_usb") = 1
            /\ current_position'["backup_usb"] = RITUAL_LOCATION_ID
            /\ score' = score + drop_award(Dropped(lastOp'.arg)) + RITUAL_BONUS]_vars

\* C6 witness: the ritual has just fired on the drop of the item whose own
\* target is the ritual location.
C6_Witness ==
    /\ Did("drop") /\ Dropped(lastOp.arg) = "USB Drive"
    /\ state.ritual_complete
    /\ current_position["backup_usb"] = RITUAL_LOCATION_ID
    /\ score = 15 + 20 + RITUAL_BONUS

\* C7: a drop at the ritual location while a required item is still missing
\* there, or after the ritual is complete, leaves ritual_complete, the stage,
\* the score and the location's list exactly as the drop itself leaves them.
C7_RitualCheckNoOp ==
    [][(/\ lastOp'.op = "drop" /\ lastOp'.ok
        /\ current_location_id = RITUAL_LOCATION_ID
        /\ \/ state.ritual_complete
           \/ ~(required \subseteq
                    Range(Append(ritual_items_here, Dropped(lastOp'.arg)))))
       => /\ state'.ritual_complete = state.ritual_complete
          /\ state'.game_stage = state.game_stage
          /\ score' = score + drop_award(Dropped(lastOp'.arg))
          /\ items'[RITUAL_LOCATION_ID] =
                 Append(ritual_items_here, Dropped(lastOp'.arg))]_vars

\* C7 witness: a required item has just been dropped at the ritual location
\* while another one was still missing.
C7_Witness ==
    /\ Did("drop") /\ current_location_id = RITUAL_LOCATION_ID
    /\ ~state.ritual_complete
    /\ Len(ritual_items_here) = 2
    /\ Range(ritual_items_here) \subseteq required

\* C8 as stated: every spawned item is in exactly one place, also after a
\* coffee consumption and after the ritual.
C8_Original == \A n \in ItemNames : Spawned(n) => Places(n) = 1

\* C8 amended: every item is in at most one place, and a spawned item is in
\* exactly one place unless it has been consumed (the coffee) or dissolved
\* by the ritual (the three required items), when it is in none.
C8_OnePlace ==
    \A n \in ItemNames :
        /\ Places(n) <= 1
        /\ Places(n) = 0 <=>
              \/ ~Spawned(n)
              \/ lower(n) = "coffee" /\ state.coffee_consumed
              \/ n \in required /\ state.ritual_complete

\* C8 witness: the coffee has been consumed and the ritual has fired.
C8_Witness == state.coffee_consumed /\ state.ritual_complete

\* C9 as stated, for the items that exist in the world: current_position is
\* the held sentinel exactly when the item is in the inventory, and is
\* location L exactly when the item is in L's list.
C9_Original ==
    \A n \in ItemNames :
        Spawned(n) =>
            /\ current_position[n] = HELD <=> n \in Range(inventory)
            /\ \A l \in LocationIds :
                   current_position[n] = l <=> n \in Range(items[l])

\* C10: the stage never moves backward in the order
\* start < exploring < gathering < ready_ritual < ritual_done.
C10_StageMonotone ==
    [][StageRank(state'.game_stage) >= StageRank(state.game_stage)]_vars

\* C10 witness: a move was made after the ritual, and the stage stayed at
\* ritual_done.
C10_Witness == Did("go") /\ state.game_stage = "ritual_done"

\* the required items that have ever been collected
collected == required \cap state.items_collected

\* C11 as stated: right after every successful pickup and every successful
\* move the stage is past start if a required item was ever collected, is at
\* least gathering if two were, and is ready_ritual if all three were and
\* the ritual is not complete.
C11_Original ==
    (Did("take") \/ Did("go")) =>
        /\ (collected # {} => state.game_stage # "start")
        /\ (Cardinality(collected) >= 2 =>
                StageRank(state.game_stage) >= StageRank("gathering"))
        /\ (Cardinality(collected) = 3 /\ ~state.ritual_complete =>
                state.game_stage = "ready_ritual")

\* the command just processed (in the primed state) is a successful take of
\* the coffee
CoffeeTaken == lastOp'.op = "take" /\ lastOp'.ok /\ get_item(lastOp'.arg) = "coffee"

\* C12: max_moves is 28 while coffee_consumed is false and 33 once it is
\* true; it never decreases; it changes only in the step of the first
\* successful coffee pickup, which adds 5, sets coffee_consumed and leaves the
\* coffee out of the inventory; a later coffee pickup leaves max_moves and
\* coffee_consumed as they are (and the coffee in the inventory).
C12_CoffeeOnce ==
    /\ [](max_moves = IF state.coffee_consumed
                      THEN BASE_MAX_MOVES + COFFEE_BONUS_MOVES
                      ELSE BASE_MAX_MOVES)
    /\ [](state.coffee_consumed <=> "coffee" \in state.items_collected)
    /\ [][/\ max_moves' >= max_moves
          /\ (max_moves' # max_moves \/
              state'.coffee_consumed # state.coffee_consumed) =>
                 /\ CoffeeTaken
                 /\ "coffee" \notin state.items_collected
          /\ CoffeeTaken /\ "coffee" \notin state.items_collected =>
                 /\ max_moves' = max_moves + COFFEE_BONUS_MOVES
                 /\ ~state.coffee_consumed /\ state'.coffee_consumed
                 /\ inventory' = inventory
                 /\ "coffee" \notin Range(inventory')
          /\ CoffeeTaken /\ "coffee" \in state.items_collected =>
                 /\ max_moves' = max_moves
                 /\ state'.coffee_consumed
                 /\ inventory' = Append(inventory, "coffee")]_vars

\* C12 witness: a second coffee has just been picked up; it is held, and the
\* limit is still the once-raised one.
C12_Witness ==
    /\ Did("take") /\ get_item(lastOp.arg) = "coffee"
    /\ "coffee" \in Range(inventory)
    /\ state.coffee_consumed
    /\ max_moves = BASE_MAX_MOVES + COFFEE_BONUS_MOVES

\* a name matches an element of a list of names, case-insensitively
NamedIn(names, typed) == \E i \in 1..Len(names) : lower(names[i]) = lower(typed)

\* C13: a take of a name that is not in the item registry or not in the
\* current location's list, and a drop of a name that is not in the
\* inventory, fail and leave inventory, every location's list, the item
\* placements, score, items_collected and the flags, max_moves, moves_made
\* and the current location unchanged: every step either is reported as a
\* failure and changes none of them, or is no such take and no such drop.
C13_FailedItemCommandNoOp ==
    [][\/ /\ ~lastOp'.ok
          /\ UNCHANGED <<inventory, items, current_position, score, state,
                         max_moves, moves_made, current_location_id>>
       \/ ~\E n \in TypedNames :
              \/ /\ lastOp'.op = "take"
                 /\ (get_item(n) = None \/ ~NamedIn(here_items, n))
                 /\ TakeCommand(n)
              \/ /\ lastOp'.op = "drop"
                 /\ ~NamedIn(inventory, n)
                 /\ DropCommand(n)]_vars

\* C13 witness: a take has just failed while the player holds an item, has
\* points, and the location lists other items.
C13_Witness ==
    /\ Failed("take")
    /\ inventory # <<>> /\ here_items # <<>> /\ score > 0

\* the command just processed (in the primed state) is a successful take
Took == lastOp'.op = "take" /\ lastOp'.ok

\* the item a take command names
Taken(typed) == get_item(typed)

\* C14 as stated: after a successful take of X at the current location L, X
\* is no longer in L's list, X's placement is the held sentinel, X is in the
\* inventory, the score has risen by X's pickup points and X is in
\* items_collected.
C14_Original ==
    [][Took =>
          LET X == Taken(lastOp'.arg)
          IN  /\ X \notin Range(items'[current_location_id])
              /\ current_position'[X] = HELD
              /\ X \in Range(inventory')
              /\ score' = score + ItemDef(X).pickup_points
              /\ X \in state'.items_collected]_vars

\* C14 amended: as stated, except that X is appended to the inventory unless
\* X is the coffee and no coffee was consumed before; that pickup consumes
\* the coffee in the same step, so the inventory is as it was before and X is
\* not in it.
C14_TakeEffect ==
    [][Took =>
          LET X == Taken(lastOp'.arg)
          IN  /\ X \notin Range(items'[current_location_id])
              /\ current_position'[X] = HELD
              /\ IF lower(X) = "coffee" /\ ~state.coffee_consumed
                 THEN inventory' = inventory /\ X \notin Range(inventory')
                 ELSE inventory' = Append(inventory, X)
              /\ score' = score + ItemDef(X).pickup_points
              /\ X \in state'.items_collected
              /\ state'.items_collected = state.items_collected \cup {X}
              /\ \A l \in LocationIds \ {current_location_id} :
                     items'[l] = items[l]]_vars

\* C14 witness: the coffee has just been picked up by a player who holds
\* another item, and it is not in the inventory.
C14_Witness ==
    /\ Did("take") /\ Taken(lastOp.arg) = "coffee"
    /\ inventory # <<>>
    /\ "coffee" \notin Range(inventory)
    /\ current_position["coffee"] = HELD

\* the command just processed (in the primed state) is a successful drop
DroppedNow == lastOp'.op = "drop" /\ lastOp'.ok

\* what the claim lets a drop of X at L add to the score
TargetPoints(X, L) ==
    IF L = ItemDef(X).target_position /\ ItemDef(X).target_points > 0
    THEN ItemDef(X).target_points ELSE 0

\* what the ritual adds in the step, if it fires
RitualPoints == IF RitualFires THEN RITUAL_BONUS ELSE 0

\* C15 as stated: after a successful drop of a held item X at the current
\* location L, X is no longer in the inventory, X is in L's list and X's
\* placement is L; the drop itself adds X's target points to the score if L
\* is X's target and the points are positive, and nothing otherwise.
C15_Original ==
    [][DroppedNow =>
          LET X == Dropped(lastOp'.arg)
              L == current_location_id
          IN  /\ X \notin Range(inventory')
              /\ X \in Range(items'[L])
              /\ current_position'[X] = L
              /\ score' = score + TargetPoints(X, L) + RitualPoints]_vars

\* C15 amended: as stated, except that X is at the end of L's list unless
\* the drop completes the ritual; then X and the other two required items
\* are not in L's list, which ends with the artifact instead.
C15_DropEffect ==
    [][DroppedNow =>
          LET X == Dropped(lastOp'.arg)
              L == current_location_id
          IN  /\ X \in Range(inventory)
              /\ X \notin Range(inventory')
              /\ Len(inventory') = Len(inventory) - 1
              /\ IF RitualFires
                 THEN /\ X \notin Range(items'[L])
                      /\ items'[L] =
                            Append(RemoveRitualItems(Append(items[L], X), 1),
                                   "backup_usb")
                 ELSE items'[L] = Append(items[L], X)
              /\ current_position'[X] = L
              /\ current_location_id' = L
              /\ score' = score + TargetPoints(X, L) + RitualPoints
              /\ \A l \in LocationIds \ {L} : items'[l] = items[l]]_vars

\* C15 witness: an item has just been dropped at its target, which is not
\* the ritual location, and the target points were awarded.
C15_Witness ==
    /\ Did("drop") /\ Dropped(lastOp.arg) = "Laptop Charger"
    /\ current_location_id = KEYPAD_LOCATION_ID
    /\ "Laptop Charger" \in Range(here_items)
    /\ score = 5 + 20

\* the last command was a successful drop of X at X's target location, where
\* the player still stands, and the step is a take command
AfterTargetDrop(X) ==
    /\ Did("drop") /\ Dropped(lastOp.arg) = X
    /\ current_location_id = ItemDef(X).target_position
    /\ lastOp'.op = "take"

\* the take command of the step names X by the name typed
Retakes(X, typed) == Taken(typed) = X /\ TakeCommand(typed)

\* C16 as stated: for every item X dropped at its target location, taking X
\* immediately afterwards ends with X in the inventory and absent from that
\* location's list.
C16_Original ==
    [][\A X \in ItemNames :
          AfterTargetDrop(X) =>
              \A n \in TypedNames :
                  Retakes(X, n) =>
                      /\ X \in Range(inventory')
                      /\ X \notin Range(items'[current_location_id])]_vars

\* C16 amended: as stated, unless the drop completed the ritual.  That drop
\* dissolves X together with the other required items, the take that follows
\* fails, and X ends neither in the inventory nor in the location's list.
C16_RoundTrip ==
    [][\A X \in ItemNames :
          AfterTargetDrop(X) =>
              \A n \in TypedNames :
                  Retakes(X, n) =>
                      IF X \in required /\ state.ritual_complete
                      THEN /\ ~lastOp'.ok
                           /\ X \notin Range(inventory')
                           /\ X \notin Range(items'[current_location_id])
                           /\ UNCHANGED <<inventory, items, score>>
                      ELSE /\ lastOp'.ok
                           /\ X \in Range(inventory')
                           /\ X \notin Range(items'[current_location_id])
                           /\ inventory' = Append(inventory, X)]_vars

\* C16 witness: the Laptop Charger was picked up at the dorm, carried to its
\* target, dropped there for its 20 points and has just been picked up
\* again: it is held and the location no longer lists it.
C16_Witness ==
    /\ Did("take") /\ Taken(lastOp.arg) = "Laptop Charger"
    /\ current_location_id = ItemDef("Laptop Charger").target_position
    /\ moves_made = 1 /\ takes = 2 /\ score = 5 + 20 + 5
    /\ inventory = <<"Laptop Charger">>
    /\ "Laptop Charger" \notin Range(here_items)

\* C17: an enter-code attempt changes state only if it is made at the keypad
\* location while the server room is locked and with a code equal to
\* puzzle_code; it then sets server_room_unlocked, makes "go south" of that
\* location lead to location 12 and adds 20 to the score, and nothing else.
\* Every other attempt changes nothing.  server_room_unlocked changes in no
\* other step and never back, so the bonus is awarded at most once.
C17_KeypadOnce ==
    /\ [][lastOp'.op = "enter code" =>
             \A c \in TypedCodes :
                 EnterCodeCommand(c) =>
                     IF /\ current_location_id = KEYPAD_LOCATION_ID
                        /\ ~state.server_room_unlocked
                        /\ c = state.puzzle_code
                     THEN /\ lastOp'.ok
                          /\ state' = [state EXCEPT !.server_room_unlocked = TRUE]
                          /\ <<"go", "south">> \in
                                 DOMAIN available_commands'[KEYPAD_LOCATION_ID]
                          /\ available_commands'[KEYPAD_LOCATION_ID][<<"go", "south">>]
                                 = IntResult(SERVER_ROOM_DEST)
                          /\ score' = score + KEYPAD_BONUS
                          /\ UNCHANGED <<current_location_id, max_moves, inventory,
                                         moves_made, items, current_position,
                                         game_logs, ongoing, visited>>
                     ELSE /\ ~lastOp'.ok
                          /\ UNCHANGED <<core, ongoing, visited>>]_vars
    /\ [][state'.server_room_unlocked # state.server_room_unlocked =>
             /\ ~state.server_room_unlocked
             /\ lastOp'.op = "enter code" /\ lastOp'.ok
             /\ score' = score + KEYPAD_BONUS]_vars

\* C17 witness: the right code was entered once and an attempt made
\* afterwards at the keypad has just been refused; the bonus was given once.
C17_Witness ==
    /\ Failed("enter code")
    /\ current_location_id = KEYPAD_LOCATION_ID
    /\ state.server_room_unlocked
    /\ score = KEYPAD_BONUS

\* the unlock of enter_code_command applied to a transition table
Unlock(table) == DictPut(table, <<"go", "south">>, IntResult(SERVER_ROOM_DEST))

\* C18: a transition table changes only in a successful keypad code entry,
\* and that step changes only the entry "go south" of the keypad location,
\* which then leads to location 12; applying the unlock to a table it was
\* applied to leaves the table unchanged.
C18_OnlyKeypadEditsTables ==
    /\ [][available_commands' # available_commands =>
             LET old == available_commands[KEYPAD_LOCATION_ID]
                 new == available_commands'[KEYPAD_LOCATION_ID]
             IN  /\ lastOp'.op = "enter code" /\ lastOp'.ok
                 /\ \A l \in LocationIds \ {KEYPAD_LOCATION_ID} :
                        available_commands'[l] = available_commands[l]
                 /\ DOMAIN new = (DOMAIN old) \cup {<<"go", "south">>}
                 /\ \A k \in DOMAIN old :
                        k # <<"go", "south">> => new[k] = old[k]
                 /\ new[<<"go", "south">>] = IntResult(SERVER_ROOM_DEST)]_vars
    /\ [](/\ Unlock(Unlock(available_commands[KEYPAD_LOCATION_ID]))
                = Unlock(available_commands[KEYPAD_LOCATION_ID])
          /\ state.server_room_unlocked =>
                Unlock(available_commands[KEYPAD_LOCATION_ID])
                    = available_commands[KEYPAD_LOCATION_ID])

\* C18 witness: the door was unlocked and the new edge has just been used to
\* walk into location 12.
C18_Witness ==
    /\ Did("go") /\ lastOp.arg = "south"
    /\ current_location_id = SERVER_ROOM_DEST
    /\ state.server_room_unlocked
    /\ available_commands[KEYPAD_LOCATION_ID][<<"go", "west">>] = IntResult(0)

\* C19: check_win() is true exactly when the player is at the home location
\* (id 0) and backup_usb is in that location's list; it is false when the
\* player stands at home with the artifact in the inventory.
C19_WinCondition ==
    /\ check_win <=> (/\ current_location_id = 0
                      /\ \E i \in 1..Len(items[0]) : items[0][i] = "backup_usb")
    /\ (current_location_id = 0 /\ "backup_usb" \in Range(inventory))
           => ~check_win

\* C19 witness: the artifact was carried home and has just been dropped
\* there, and check_win() is true.
C19_Witness ==
    /\ Did("drop") /\ Dropped(lastOp.arg) = "backup_usb"
    /\ current_location_id = DORM_LOCATION_ID
    /\ check_win

C21_OneEnding ==
    /\ [](ending \in {"none", "win", "lose", "quit"})
    /\ [](ongoing <=> ending = "none")
    /\ [][ongoing]_vars
    /\ [][IF lastOp'.op = "quit" THEN ending' = "quit"
          ELSE IF check_win' THEN ending' = "win"
          ELSE IF check_lose' THEN ending' = "lose"
          ELSE ending' = "none" /\ ongoing']_vars

\* C21 witness: the twenty-eighth move has brought the player home, where
\* the artifact lies: both predicates hold and the session ended as a win.
C21_Witness ==
    /\ check_win /\ check_lose
    /\ ~ongoing /\ ending = "win"
    /\ Did("go")

\* the loader data is as the claim requires: every integer destination of
\* every loaded transition table is the id of a loaded location
DestinationsExist ==
    \A l \in locations : \A k \in DOMAIN InitialCommands[l] :
        InitialCommands[l][k].isint => InitialCommands[l][k].id \in locations

\* C22 as stated: with such loader data, current_location_id is in every
\* reachable state the id of an existing location, also after the keypad
\* unlock has added its edge.
C22_Original == DestinationsExist => current_location_id \in locations

\* the constructor call has ended
Constructed == lastOp.op = "construct"

\* C23 as stated: constructing a session from well-formed loader data never
\* aborts and yields the initial state: the given location, ongoing, a
\* player with empty inventory, score 0 and no moves, max_moves =
\* BASE_MAX_MOVES, stage 'start', and the three flags false.
C23_Original ==
    Constructed =>
        /\ lastOp.ok
        /\ current_location_id = lastOp.arg.initial_location_id
        /\ ongoing = TRUE
        /\ inventory = <<>> /\ score = 0 /\ moves_made = 0
        /\ max_moves = BASE_MAX_MOVES
        /\ state.game_stage = "start"
        /\ ~state.server_room_unlocked
        /\ ~state.coffee_consumed
        /\ ~state.ritual_complete

\* the typed name is the name of a registry item, whatever its case
Defined(typed) == \E i \in 1..Len(ItemDefs) : lower(ItemDefs[i].name) = lower(typed)

\* the typed name is that of a registry item which is held or lies here
Visible(typed) ==
    /\ Defined(typed)
    /\ NamedIn(inventory, typed) \/ NamedIn(here_items, typed)

\* C24: examine(item_name) is read-only: succeeding or failing, it changes
\* no session state; and it succeeds exactly when the item is defined and is
\* in the player's inventory or in the current location's list, names being
\* compared case-insensitively.
C24_ExamineReadOnly ==
    [][lastOp'.op = "examine" =>
        /\ UNCHANGED <<current_location_id, ongoing, max_moves, inventory,
                       score, moves_made, available_commands, items,
                       current_position, state, game_logs>>
        /\ \A n \in ExaminedNames :
              ExamineCommand(n) => (lastOp'.ok <=> Visible(n))]_vars

\* an examine succeeded although nothing examined lies here: the item is held
\* and its name was typed in another case
C24_Witness ==
    /\ Did("examine")
    /\ "USB Drive" \in Range(inventory)
    /\ here_items = <<>>
    /\ ~Visible("backup_usb")

\* C25: items_collected is append-only: no operation removes a name from it,
\* so an item that was taken stays collected after it is dropped, consumed
\* (coffee) or dissolved by the ritual.
C25_CollectedAppendOnly ==
    [][state.items_collected \subseteq state'.items_collected]_vars

\* the coffee was drunk and the three ritual items were dropped and
\* dissolved; all four are still collected
C25_Witness ==
    /\ Did("drop")
    /\ state.ritual_complete /\ state.coffee_consumed
    /\ inventory = <<>>
    /\ \A n \in required : \A l \in locations : n \notin Range(items[l])
    /\ required \cup {"coffee"} \subseteq state.items_collected

\* the entries met by following next from entry curr, at most fuel of them
RECURSIVE ChainFrom(_, _, _)
ChainFrom(log, curr, fuel) ==
    IF curr = 0 \/ fuel = 0 THEN <<>>
    ELSE <<curr>> \o ChainFrom(log, log.nodes[curr].next, fuel - 1)

\* the entries of the log in order, from first
Chain(log) == ChainFrom(log, log.first, Len(log.nodes))

\* some earlier call of remove_last_event emptied a log that held an entry
WasEmptied ==
    \E k \in 2..Len(hist) :
        hist[k].op = "remove" /\ hist[k].ids = <<>> /\ hist[k-1].ids # <<>>

\* C26: after any sequence of add_event and remove_last_event calls, each
\* added event a fresh node, first is None exactly when last is None exactly
\* when is_empty() is true; and a non-empty log has first.prev None,
\* last.next None, and last is reached by following next from first.
C26_EmptinessCoupling ==
    /\ (game_logs.first = 0) <=> (game_logs.last = 0)
    /\ (game_logs.last = 0) <=> is_empty(game_logs)
    /\ ~is_empty(game_logs) =>
          /\ game_logs.nodes[game_logs.first].prev = 0
          /\ game_logs.nodes[game_logs.last].next = 0
          /\ game_logs.last \in Range(Chain(game_logs))

\* a log that was emptied by a removal and then got two entries
C26_Witness ==
    /\ driver = "log"
    /\ WasEmptied
    /\ Len(Chain(game_logs)) = 2
    /\ game_logs.first # game_logs.last

\* C27: add_event on an empty log makes the event both first and last with
\* prev, next and next_command all None, the given command being discarded;
\* on a non-empty log it sets the old last entry's next_command to the given
\* command, links old last and new event in both directions, makes the new
\* event last with next and next_command None, and leaves first and all
\* earlier entries unchanged.
C27_AddEffect ==
    [][lastOp'.op = "add" =>
        LET old == game_logs
            new == game_logs'
            e   == Len(game_logs.nodes) + 1
        IN  /\ Len(new.nodes) = e
            /\ new.nodes[e].id_num = hist'[Len(hist')].id_num
            /\ new.nodes[e].next = 0
            /\ new.nodes[e].next_command = NoCommand
            /\ new.last = e
            /\ IF old.first = 0
               THEN /\ new.first = e
                    /\ new.nodes[e].prev = 0
                    /\ \A i \in 1..Len(old.nodes) : new.nodes[i] = old.nodes[i]
               ELSE /\ new.first = old.first
                    /\ new.nodes[e].prev = old.last
                    /\ new.nodes[old.last] =
                          [old.nodes[old.last] EXCEPT !.next = e,
                                                      !.next_command = lastOp'.arg]
                    /\ \A i \in 1..Len(old.nodes) :
                          i # old.last => new.nodes[i] = old.nodes[i]]_vars

\* the first event was added with a command, which was discarded; the second
\* was added without one, and the first now carries that absent command
C27_Witness ==
    /\ driver = "log"
    /\ Len(hist) = 2
    /\ hist[1].op = "add" /\ hist[1].command = <<"go", "east">>
    /\ hist[2].op = "add" /\ hist[2].command = NoCommand
    /\ Chain(game_logs) = <<1, 2>>
    /\ game_logs.nodes[1].next_command = NoCommand

\* a sequence without its final element; the empty sequence stays empty
ButLast(seq) == IF seq = <<>> THEN <<>> ELSE SubSeq(seq, 1, Len(seq) - 1)

\* C28: remove_last_event is a no-op on an empty log, empties a one-entry
\* log, and on a log of two or more entries makes the predecessor of the
\* last entry the new last with its next and next_command cleared; in every
\* case the id sequence afterwards is the one before without its final
\* element, and no other entry's fields change.
C28_RemoveEffect ==
    [][lastOp'.op = "remove" =>
        LET old == game_logs
            new == game_logs'
            n   == Len(Chain(game_logs))
            p   == IF n >= 2 THEN game_logs.nodes[game_logs.last].prev ELSE 0
        IN  /\ get_id_log(new) = ButLast(get_id_log(old))
            /\ Len(new.nodes) = Len(old.nodes)
            /\ \A i \in 1..Len(old.nodes) : i # p => new.nodes[i] = old.nodes[i]
            /\ n = 0 => new = old
            /\ n = 1 => new.first = 0 /\ new.last = 0
            /\ n >= 2 =>
                  /\ new.first = old.first
                  /\ new.last = p
                  /\ new.nodes[p] = [old.nodes[p] EXCEPT !.next = 0,
                                                         !.next_command = NoCommand]]_vars

\* the last of two entries with equal id and description, both added
\* without a command, was removed: the first entry remains
C28_Witness ==
    /\ driver = "log"
    /\ Len(hist) = 3
    /\ hist[1].op = "add" /\ hist[2].op = "add" /\ hist[3].op = "remove"
    /\ hist[1].id_num = hist[2].id_num
    /\ hist[1].command = NoCommand /\ hist[2].command = NoCommand
    /\ get_id_log(game_logs) = <<hist[1].id_num>>
    /\ game_logs.first = 1 /\ game_logs.last = 1

\* the calls so far were n calls of add_event and then n of remove_last_event
AddsThenRemoves(n) ==
    /\ Len(hist) = 2 * n
    /\ \A k \in 1..n : hist[k].op = "add"
    /\ \A k \in (n + 1)..(2 * n) : hist[k].op = "remove"

\* the id sequence before the k-th call
IdsBefore(k) == IF k = 1 THEN <<>> ELSE hist[k - 1].ids

\* C29: for every n >= 0, n add_event calls on an empty log followed by n
\* remove_last_event calls leave the log empty; and add_event(e, cmd)
\* followed by remove_last_event() restores the id sequence there was before
\* the add and leaves the last entry with next_command None.
C29_AddRemoveRoundTrip ==
    /\ \A n \in 0..MaxLogOps :
          AddsThenRemoves(n) =>
              /\ is_empty(game_logs)
              /\ game_logs.last = 0
              /\ get_id_log(game_logs) = <<>>
    /\ \A k \in 2..Len(hist) :
          hist[k - 1].op = "add" /\ hist[k].op = "remove" =>
              /\ hist[k].ids = IdsBefore(k - 1)
              /\ k = Len(hist) /\ ~is_empty(game_logs) =>
                    game_logs.nodes[game_logs.last].next_command = NoCommand

\* add(L1); add(L1, cmd); remove_last(); remove_last(): after the third call
\* the sequence was [L1], after the fourth the log is empty
C29_Witness ==
    /\ driver = "log"
    /\ AddsThenRemoves(2)
    /\ hist[1].id_num = hist[2].id_num
    /\ hist[2].command = <<"go", "east">>
    /\ hist[3].ids = <<hist[1].id_num>>
    /\ is_empty(game_logs)

\* the add_event calls whose event is still in the log, oldest first: each
\* remove_last_event call on a non-empty log takes back the latest of them
RECURSIVE LiveAdds(_)
LiveAdds(h) ==
    IF h = <<>> THEN <<>>
    ELSE IF h[Len(h)].op = "add" THEN Append(LiveAdds(ButLast(h)), h[Len(h)])
    ELSE ButLast(LiveAdds(ButLast(h)))

\* the next_command of the i-th entry of the log
PendingCommand(i) == game_logs.nodes[Chain(game_logs)[i]].next_command

\* C30 as stated: after any sequence of add_event and remove_last_event
\* calls, the last entry has next_command None and every non-last entry has
\* a non-None next_command equal to the command passed when its successor
\* was added.
C30_Original ==
    LET n == Len(Chain(game_logs))
    IN  /\ n = Len(LiveAdds(hist))
        /\ n >= 1 => PendingCommand(n) = NoCommand
        /\ \A i \in 1..(n - 1) :
              /\ PendingCommand(i) # NoCommand
              /\ PendingCommand(i) = LiveAdds(hist)[i + 1].command

\* C30: after any sequence of add_event and remove_last_event calls, the
\* last entry has next_command None and the next_command of every non-last
\* entry is the command passed when its successor was added, which is None
\* when that call passed no command.
C30_PendingCommand ==
    LET n == Len(Chain(game_logs))
    IN  /\ n = Len(LiveAdds(hist))
        /\ n >= 1 => PendingCommand(n) = NoCommand
        /\ \A i \in 1..(n - 1) :
              PendingCommand(i) = LiveAdds(hist)[i + 1].command

\* after a removal from a non-empty log, three entries: the first has no
\* pending command because its successor was added without one, the second
\* has the command its successor came with
C30_Witness ==
    /\ driver = "log"
    /\ \E k \in 1..Len(hist) : hist[k].op = "remove" /\ IdsBefore(k) # <<>>
    /\ Len(Chain(game_logs)) = 3
    /\ PendingCommand(1) = NoCommand
    /\ PendingCommand(2) = <<"go", "east">>
    /\ PendingCommand(3) = NoCommand

\* the id log of the simulation before its k-th command
SimIdsBefore(k) == IF k = 1 THEN <<DORM_LOCATION_ID>> ELSE hist[k - 1].ids

\* the location the simulation is at before its k-th command
SimAt(k) == SimIdsBefore(k)[Len(SimIdsBefore(k))]

\* the k-th command is valid where the simulation is: a go command or talk
\* to friend must be a key of that location's table; item and menu commands
\* are taken as given
SimValid(k) ==
    hist[k].command[1] \in {"go", "talk"} =>
        hist[k].command \in DOMAIN SimTables[SimAt(k)]

\* the id the claim expects the k-th command to log
SimExpected(k) ==
    LET c == hist[k].command
        r == SimTables[SimAt(k)][c]
    IN  IF c[1] # "go" THEN SimAt(k)
        ELSE IF r.isint THEN r.id
        ELSE PUZZLE_CHECK_DEST

\* C31: for a command list that is valid from the initial location, the
\* simulation's id log begins with the initial location id and then holds
\* exactly one entry per command: the destination for a go command (12 for
\* the puzzle check tag) and the unchanged location for take, drop, examine,
\* the menu commands and talk to friend; its length is 1 + the number of
\* commands, whatever the move budget.
C31_SimulationLog ==
    (\A k \in 1..Len(hist) : SimValid(k)) =>
        /\ get_id_log(game_logs)[1] = DORM_LOCATION_ID
        /\ Len(get_id_log(game_logs)) = 1 + Len(hist)
        /\ \A k \in 1..Len(hist) :
              hist[k].ids = Append(SimIdsBefore(k), SimExpected(k))
        /\ hist # <<>> => get_id_log(game_logs) = hist[Len(hist)].ids

\* the walkthrough of 35 moves was handled: 36 entries, more moves than the
\* largest budget
C31_Witness ==
    /\ driver = "sim"
    /\ Len(hist) = LoseDemoLength
    /\ Len(hist) > BASE_MAX_MOVES + COFFEE_BONUS_MOVES
    /\ Len(get_id_log(game_logs)) = LoseDemoLength + 1
    /\ get_id_log(game_logs)[LoseDemoLength + 1] = KEYPAD_LOCATION_ID

\* C32 as stated: the loop's handling of a movement command is equivalent to
\* go_command: for every 'go <direction>' command available at the current
\* location the loop produces the same current location, moves_made and
\* stage as go_command does, and appends the same entry to the game's event
\* log.
C32_Original ==
    [][driver = "loop" /\ lastOp'.op = "go" /\ lastOp'.ok =>
          go_command(lastOp'.arg)]_vars

\* the destination of the movement command just made, read from the table of
\* the location left
MovedTo == available_commands[current_location_id][<<"go", lastOp'.arg>>].id

\* C33: if the event log initially holds one entry for the starting
\* location, then after any sequence of go_command calls interleaved with
\* other commands the id sequence of the log is the starting location
\* followed by the destinations of the successful moves in order, its length
\* is moves_made + 1 and its last id is current_location_id.
C33_LogFollowsMoves ==
    /\ [](/\ get_id_log(game_logs)[1] = DORM_LOCATION_ID
          /\ Len(get_id_log(game_logs)) = moves_made + 1
          /\ get_id_log(game_logs)[moves_made + 1] = current_location_id)
    /\ [][IF lastOp'.op = "go" /\ lastOp'.ok
          THEN get_id_log(game_logs') = Append(get_id_log(game_logs), MovedTo)
          ELSE get_id_log(game_logs') = get_id_log(game_logs)]_vars

\* east to the keypad, the code entered, south through the unlocked door and
\* north again: the log holds the four locations in order
C33_Witness ==
    /\ Did("go")
    /\ state.server_room_unlocked
    /\ moves_made = 3
    /\ get_id_log(game_logs) = <<DORM_LOCATION_ID, KEYPAD_LOCATION_ID,
                                 SERVER_ROOM_DEST, KEYPAD_LOCATION_ID>>

\* C34: in the interactive loop moves_made <= max_moves <= BASE_MAX_MOVES +
\* COFFEE_BONUS_MOVES holds in every reachable state, so no session makes
\* more than 33 successful movement commands, and no movement command is
\* processed once check_lose() is true.
C34_MoveBudget ==
    /\ [](moves_made <= max_moves)
    /\ [](max_moves <= BASE_MAX_MOVES + COFFEE_BONUS_MOVES)
    /\ [](go_ok <= BASE_MAX_MOVES + COFFEE_BONUS_MOVES)
    /\ [][moves_made' # moves_made \/ current_location_id' # current_location_id
             => ~check_lose /\ ongoing]_vars
    /\ [](check_lose => ~ongoing)

\* the thirteenth move was made without coffee: the budget is used up and
\* the loop has ended the session as lost
C34_Witness ==
    /\ Did("go")
    /\ ~state.coffee_consumed
    /\ moves_made = BASE_MAX_MOVES /\ max_moves = BASE_MAX_MOVES
    /\ ~ongoing /\ ending = "lose"

\* C35 as stated: current_location_id changes only in steps in which
\* moves_made increases by exactly 1; no command changes the location
\* without being counted as a move, through go_command or through the
\* interactive loop.
C35_Original ==
    [][current_location_id' # current_location_id =>
          moves_made' = moves_made + 1]_vars

\* C36: in every reachable state the stage is 'ritual_done' exactly when
\* ritual_complete is true: the stage never reaches ritual_done without the
\* ritual having fired, and once it has fired no later move or pickup sets
\* the stage to anything else.
C36_RitualStage ==
    /\ [](state.game_stage = "ritual_done" <=> state.ritual_complete)
    /\ [][state.ritual_complete =>
             state'.ritual_complete /\ state'.game_stage = "ritual_done"]_vars

\* after the ritual the artifact was picked up and a move was made; all
\* three items count as collected and the stage is still ritual_done
C36_Witness ==
    /\ Did("go")
    /\ state.ritual_complete
    /\ "backup_usb" \in Range(inventory)
    /\ required \subseteq state.items_collected
    /\ state.game_stage = "ritual_done"

\* the artifact lies in the list of location l
ArtifactAt(l) == "backup_usb" \in Range(items[l])

\* the artifact is carried
ArtifactHeld == "backup_usb" \in Range(inventory)

\* the artifact exists somewhere in the world
ArtifactExists == ArtifactHeld \/ \E l \in locations : ArtifactAt(l)

\* C37: with loader data that lists 'backup_usb' in no location,
\* check_win() can be true only in states where ritual_complete is true: the
\* ritual firing precedes the win, the artifact first appears at the ritual
\* location when the ritual fires, is carried only after a take, and comes
\* to lie at the home location only by being dropped there.
C37_RitualBeforeWin ==
    /\ [](check_win => state.ritual_complete)
    /\ [](ArtifactExists => state.ritual_complete)
    /\ [][~ArtifactExists /\ ArtifactExists' =>
             /\ ~state.ritual_complete /\ state'.ritual_complete
             /\ current_location_id = RITUAL_LOCATION_ID
             /\ "backup_usb" \in Range(items'[RITUAL_LOCATION_ID])
             /\ ~ArtifactHeld']_vars
    /\ [][~ArtifactHeld /\ ArtifactHeld' =>
             /\ lastOp'.op = "take" /\ lastOp'.ok
             /\ ArtifactAt(current_location_id)]_vars
    /\ [][~ArtifactAt(DORM_LOCATION_ID) /\ ArtifactAt(DORM_LOCATION_ID)' =>
             /\ lastOp'.op = "drop" /\ lastOp'.ok
             /\ current_location_id = DORM_LOCATION_ID
             /\ ArtifactHeld /\ ~ArtifactHeld']_vars

\* the artifact has just been dropped at home after the ritual: the session
\* is won, and nothing of the artifact is left elsewhere
C37_Witness ==
    /\ Did("drop")
    /\ check_win
    /\ state.ritual_complete
    /\ ~ArtifactHeld
    /\ ~ArtifactAt(RITUAL_LOCATION_ID)
    /\ current_position["backup_usb"] = DORM_LOCATION_ID

\* C38 as stated: player.score never exceeds MAX_SCORE in any reachable
\* state, because pickup points and target-location points of an item are
\* not awarded again when the item is dropped and retaken, or retaken and
\* dropped again at its target.
C38_Original == score <= MAX_SCORE

\* C39: remove_last_event removes exactly one entry from every log of two or
\* more entries, also when entries carry equal location ids, descriptions
\* and commands: the single-entry branch, which compares first and last by
\* field equality and not by identity, is taken only when the log has one
\* entry.
C39_EqualEntriesRemoval ==
    /\ [](~is_empty(game_logs) =>
             (EventEq(game_logs, game_logs.first, game_logs.last)
                 <=> game_logs.first = game_logs.last))
    /\ [][lastOp'.op = "remove" /\ ~is_empty(game_logs) =>
             /\ Len(Chain(game_logs')) = Len(Chain(game_logs)) - 1
             /\ is_empty(game_logs') <=> Len(Chain(game_logs)) = 1
             /\ Chain(game_logs') = ButLast(Chain(game_logs))]_vars

\* three events of the same location were added without a command and the
\* last one was removed: two entries remain
C39_Witness ==
    /\ driver = "log"
    /\ Len(hist) = 4
    /\ \A k \in 1..3 : /\ hist[k].op = "add"
                       /\ hist[k].id_num = DORM_LOCATION_ID
                       /\ hist[k].command = NoCommand
    /\ hist[4].op = "remove"
    /\ Chain(game_logs) = <<1, 2>>
    /\ game_logs.nodes[1].next_command = game_logs.nodes[2].next_command

====
